---- MODULE Spec2Model ----
(***************************************************************************)
(* State store (utils/stateManager.js) and run orchestrator                *)
(* (fetch-and-post-enhanced.js) of the threat-feed bot.                    *)
(*                                                                         *)
(* Each element of Procs is one invocation of ThreatIntelBot.run() in its  *)
(* own OS process.  The processes share only the file system: the primary  *)
(* state file, its ".tmp" sibling, its ".lock" sibling and the backup      *)
(* directory.  Every await on an fs call is one step of the model, so the  *)
(* calls of different processes interleave exactly where the event loop    *)
(* and the operating system let them.                                      *)
(*                                                                         *)
(* Time is a tick counter.  Tick 0 is never a wall-clock value, so that    *)
(* the code's truthiness tests on timestamps (lastRunTs && ...) keep       *)
(* their meaning: lastRun = 0 encodes null, lastRun = -1 encodes a string  *)
(* that is not a date.                                                     *)
(***************************************************************************)
EXTENDS Integers, Sequences, FiniteSets, TLC

\* ---------------------------------------------------------------- bounds
MaxTime == 3
NumItems == 2

\* ------------------------------------------------------ program constants
\* new StateManager({stateFile, backupDir}): the defaults, scaled to ticks
MaxRetries == 2
LockTimeout == 1
MaxBackups == 2

\* this.config.allowBackfill: config.js defines no such key, so it is
\* undefined (falsy) in every run
AllowBackfill == FALSE

\* feeds.json: the enabled feeds
NumFeeds == 3
\* PER_RUN_POST_CAP (default 30), scaled
PostCap == 2
\* TEAMS_MAX_RETRIES
TeamsMaxRetries == 5
\* updateState keeps the 1000 seen records with the newest timestamps, scaled
MaxSeen == 2
\* postToTeams: the first backoff interval and the cap on it, in ms
BaseDelayMs == 1000
MaxDelayMs == 30000

Procs == {1, 2}
\* pid of a process that crashed before the modelled runs started
DeadPid == 0
\* the tick at which the modelled runs start
StartTime == 2
Items == 1..NumItems
\* Date.parse(entry.publishedDate): item i was published at tick i
PubTs(i) == i

VARIABLES
    now,        \* Date.now(), in ticks
    lockFile,   \* `${stateFile}.lock`
    stateFile,  \* the primary state file
    tmpFile,    \* `${stateFile}.tmp`
    backups,    \* backupDir: name (the tick in the file name) -> content
    pc,         \* position of each process in run()
    op,         \* the StateManager call in progress: "load" or "save"
    attempt,    \* acquireLock's loop counter
    lockData,   \* acquireLock's lockData.timestamp
    state,      \* the run's in-memory state object
    entries,    \* filteredResults.entries
    delivered,  \* entries for which outputManager.sendEntry resolved
    err,        \* how the run failed: "none", "lock" or "io"
    seenAtLoad, \* history: ids in the primary file when loadState read it
    reclaimed,  \* history: this acquireLock call removed a stale lock
    \* one run() followed statement by statement (PipeSpec)
    step,          \* position of the run in run()
    dryRun,        \* this.isDryRun
    feedIdx,       \* processFeeds' loop: the feed to process next
    feedResults,   \* results.feedResults: feed -> "none", "ok" or "failed"
    allEntries,    \* results.allEntries
    filtered,      \* filteredResults.entries
    outIdx,        \* outputEntries' loop: the entry to send next
    totalPosted,   \* outputEntries' totalPosted
    postedThisRun, \* outputEntries' postedThisRun
    runState,      \* the state object run() got from loadState
    postAttempt,   \* postToTeams' attempt
    delayMs,       \* postToTeams' delayMs
    resp,          \* the response of postToTeams' latest fetch
    fetches,       \* history: fetch calls postToTeams made for this entry
    waited,        \* history: the latest sleep before a retry, in ms
    sinkOk,        \* history: positions of the entries the sink accepted
    sendFailed,    \* history: positions of the entries whose send failed
    summary,       \* what the run handed to healthMonitor.recordRunEnd
    \* validateState applied to one parsed object (ValidateSpec)
    vsIn,          \* the argument of validateState
    vsOut,         \* its result
    vsBy,          \* the caller: "none", "load" or "save"
    \* loadStateFile applied to one parsed JSON object (MigrateSpec)
    mgIn,          \* the object JSON.parse returned: its entries, in order
    mgOut,         \* what loadStateFile returns for it
    mgStep,        \* "none", or "loaded" after the call
    \* generateEntryId applied to two feed items (EntryIdSpec)
    eiA,           \* a feed item as rss-parser hands it to normalizeItems
    eiB,           \* an item that differs from eiA in trivia of the link
    eiIdA,         \* the id of eiA's entry in the first run
    eiIdB,         \* the id of eiB's entry in the first run
    eiIdA2,        \* the id of eiA's entry in the following run
    eiStep,        \* "none", "first" or "second"
    \* filterEntry applied to one entry (FilterSpec)
    flEntry,       \* the entry
    flCfg,         \* the filters in force and the muted types
    flErr,         \* where an internal error is raised, if it is reached
    flOut,         \* what filterEntry resolves to
    flKept,        \* filterAndClassifyEntries' filteredEntries
    flStep,        \* "none", "filtered", "pushed" or "formatted"
    flLevel        \* the severity level formatMessage shows for a kept entry

\* the variables of PipeSpec and ValidateSpec
pipeVars == <<step, dryRun, feedIdx, feedResults, allEntries, filtered,
              outIdx, totalPosted, postedThisRun, runState, postAttempt,
              delayMs, resp, fetches, waited, sinkOk, sendFailed, summary>>

valVars == <<vsIn, vsOut, vsBy>>

\* the variables of MigrateSpec, EntryIdSpec and FilterSpec
migVars == <<mgIn, mgOut, mgStep>>

idVars == <<eiA, eiB, eiIdA, eiIdB, eiIdA2, eiStep>>

filtVars == <<flEntry, flCfg, flErr, flOut, flKept, flStep, flLevel>>

fnVars == <<migVars, idVars, filtVars>>

auxVars == <<pipeVars, valVars, fnVars>>

\* the per-process variables of Spec
procVars == <<lockFile, tmpFile, pc, op, attempt, lockData, state, entries,
              delivered, err, seenAtLoad, reclaimed>>

vars == <<now, lockFile, stateFile, tmpFile, backups, pc, op, attempt,
          lockData, state, entries, delivered, err, seenAtLoad,
          reclaimed, auxVars>>

\* ------------------------------------------------------------ file values
NoFile == [kind |-> "none"]
\* bytes that JSON.parse rejects: truncated, empty or otherwise damaged
Corrupt == [kind |-> "corrupt"]
NoSeen == [i \in {} |-> 0]

RunState(seen, lastRun) == [kind |-> "state", seen |-> seen, lastRun |-> lastRun]

LockOf(pid, ts) == [kind |-> "lock", pid |-> pid, timestamp |-> ts, hostname |-> "local"]

Hostname == "local"

\* createEmptyState()
createEmptyState == RunState(NoSeen, 0)

\* isValidDate(dateString): -1 stands for a string that is not a date
isValidDate(d) == d > 0

\* validateState(state): missing or invalid fields get their defaults
validateState(s) ==
    IF s.kind # "state" THEN createEmptyState
    ELSE RunState(s.seen, IF s.lastRun # 0 /\ ~isValidDate(s.lastRun) THEN 0 ELSE s.lastRun)

\* process.kill(pid, 0) succeeds: a process with that pid exists
Alive(pid) == pid \in Procs /\ pc[pid] \notin {"idle", "done", "failed", "crashed"}

\* ------------------------------------------------- values of one run()
Feeds == 1..NumFeeds

\* no fetch has answered yet
NoResp == [status |-> "none", retryAfter |-> -1]

\* recordRunEnd has not been called
NoSummary == [kind |-> "none"]

\* the variables of PipeSpec before run() is called
PipeIdle ==
    /\ step = "idle"
    /\ dryRun = FALSE
    /\ feedIdx = 1
    /\ feedResults = [f \in Feeds |-> "none"]
    /\ allEntries = <<>>
    /\ filtered = <<>>
    /\ outIdx = 1
    /\ totalPosted = 0
    /\ postedThisRun = 0
    /\ runState = createEmptyState
    /\ postAttempt = 0
    /\ delayMs = BaseDelayMs
    /\ resp = NoResp
    /\ fetches = 0
    /\ waited = -1
    /\ sinkOk = {}
    /\ sendFailed = {}
    /\ summary = NoSummary

\* a parsed JSON value seen through the tests validateState makes on it;
\* "missing" is a key the object does not have
ParsedState(k, seen, lastRun, feedStats, filterStats, version) ==
    [kind |-> k, seen |-> seen, lastRun |-> lastRun, feedStats |-> feedStats,
     filterStats |-> filterStats, version |-> version]

NoObject == ParsedState("none", "missing", "missing", "missing", "missing", "missing")

\* the variables of ValidateSpec before validateState is called
ValIdle == vsIn = NoObject /\ vsOut = NoObject /\ vsBy = "none"

\* no value yet
None == [kind |-> "none"]

\* the variables of MigrateSpec, EntryIdSpec and FilterSpec before the
\* function is called
MigIdle == mgIn = <<>> /\ mgOut = None /\ mgStep = "none"

IdIdle ==
    /\ eiA = None /\ eiB = None
    /\ eiIdA = None /\ eiIdB = None /\ eiIdA2 = None
    /\ eiStep = "none"

FiltIdle ==
    /\ flEntry = None /\ flCfg = None /\ flErr = "none"
    /\ flOut = None /\ flKept = <<>> /\ flStep = "none"
    /\ flLevel = "none"

FnIdle == MigIdle /\ IdIdle /\ FiltIdle

\* ------------------------------------------------------------------- Init
\* a well-formed state left by an earlier run: item 1 seen, lastRun set
PrevState == RunState((1 :> 1), StartTime)
\* an older snapshot whose lastRun is not a date
OldState == RunState((1 :> 1), -1)

\* the lock file of a run that crashed while it held the lock
LeftoverLock == LockOf(DeadPid, 1)

\* what earlier runs can have left on disk (primary, backups, lock): nothing
\* (cold start); a good primary and the lock of a crashed run; a damaged
\* primary without backups; a damaged primary with a good old backup and
\* a damaged newer one; a good primary, MaxBackups older backups and the
\* lock of a crashed run
InitDisks ==
    { <<NoFile, <<>>, NoFile>>,
      <<PrevState, <<>>, LeftoverLock>>,
      <<Corrupt, <<>>, NoFile>>,
      <<Corrupt, (0 :> OldState) @@ (1 :> Corrupt), NoFile>>,
      <<PrevState, (0 :> OldState) @@ (1 :> OldState), LeftoverLock>> }

Init ==
    /\ now = StartTime
    /\ \E d \in InitDisks : stateFile = d[1] /\ backups = d[2] /\ lockFile = d[3]
    /\ tmpFile = NoFile
    /\ pc = [p \in Procs |-> "idle"]
    /\ op = [p \in Procs |-> "load"]
    /\ attempt = [p \in Procs |-> 0]
    /\ lockData = [p \in Procs |-> 0]
    /\ state = [p \in Procs |-> createEmptyState]
    /\ entries = [p \in Procs |-> {}]
    /\ delivered = [p \in Procs |-> {}]
    /\ err = [p \in Procs |-> "none"]
    /\ seenAtLoad = [p \in Procs |-> {}]
    /\ reclaimed = [p \in Procs |-> FALSE]
    /\ PipeIdle
    /\ ValIdle
    /\ FnIdle

\* the memory of a process that has exited is gone; what the world keeps
\* of the run is how it ended, what it delivered and, for a run that
\* completed, what it recorded as seen
ExitRun(p, how, why) ==
    /\ pc' = [pc EXCEPT ![p] = how]
    /\ err' = [err EXCEPT ![p] = why]
    /\ op' = [op EXCEPT ![p] = "load"]
    /\ attempt' = [attempt EXCEPT ![p] = 0]
    /\ lockData' = [lockData EXCEPT ![p] = 0]
    /\ state' = [state EXCEPT ![p] = createEmptyState]
    /\ entries' = [entries EXCEPT ![p] = IF how = "done" THEN @ ELSE {}]
    /\ seenAtLoad' = [seenAtLoad EXCEPT ![p] = {}]
    /\ reclaimed' = [reclaimed EXCEPT ![p] = FALSE]
    /\ UNCHANGED delivered

\* ------------------------------------------------------------ acquireLock
\* isLockValid without the process.kill test: only the age counts
isLockValid_NoPidCheck(lf) ==
    IF lf.kind # "lock" THEN "absent"
    ELSE IF now - lf.timestamp > LockTimeout THEN "stale"
    ELSE "valid"

\* isLockValid(): readFile, JSON.parse and the two staleness tests, up to
\* (not including) the awaited unlink.  "valid" = return true, "absent" =
\* the catch branch (return false), "stale" = the unlink is still to come.
isLockValid(lf) ==
    IF lf.kind # "lock" THEN "absent"
    ELSE IF now - lf.timestamp > LockTimeout THEN "stale"
    ELSE IF lf.hostname = Hostname
         THEN (IF Alive(lf.pid) THEN "valid" ELSE "stale")
    ELSE "valid"

\* the first statement of the body that follows a successful acquireLock
BodyOf(o) == IF o = "load" THEN "ld_read" ELSE "sv_backup"

\* run() up to loadState()'s call of acquireLock(): lockData is built once,
\* before the retry loop
StartRun(p) ==
    /\ pc[p] = "idle"
    /\ pc' = [pc EXCEPT ![p] = "acq_check"]
    /\ op' = [op EXCEPT ![p] = "load"]
    /\ attempt' = [attempt EXCEPT ![p] = 0]
    /\ lockData' = [lockData EXCEPT ![p] = now]
    /\ reclaimed' = [reclaimed EXCEPT ![p] = FALSE]
    /\ UNCHANGED <<now, lockFile, stateFile, tmpFile, backups, state,
                   entries, delivered, err, seenAtLoad>>
    /\ UNCHANGED auxVars

\* the loop test written as attempt <= maxRetries
AcqCheck_OffByOne(p) ==
    /\ pc[p] = "acq_check"
    /\ attempt[p] <= MaxRetries
    /\ LET v == isLockValid(lockFile) IN
        /\ pc' = [pc EXCEPT ![p] = CASE v = "valid" -> "acq_check"
                                     [] v = "stale" -> "acq_unlink"
                                     [] OTHER -> "acq_create"]
        /\ attempt' = [attempt EXCEPT ![p] = IF v = "valid" THEN @ + 1 ELSE @]
    /\ UNCHANGED <<now, lockFile, stateFile, tmpFile, backups, op, lockData,
                   state, entries, delivered, err, seenAtLoad, reclaimed>>
    /\ UNCHANGED auxVars

\* one pass of the for loop up to the result of isLockValid's tests; a
\* valid lock sleeps and continues with the next attempt
AcqCheck(p) ==
    /\ pc[p] = "acq_check"
    /\ attempt[p] < MaxRetries
    /\ LET v == isLockValid(lockFile) IN
        /\ pc' = [pc EXCEPT ![p] = CASE v = "valid" -> "acq_check"
                                     [] v = "stale" -> "acq_unlink"
                                     [] OTHER -> "acq_create"]
        /\ attempt' = [attempt EXCEPT ![p] = IF v = "valid" THEN @ + 1 ELSE @]
    /\ UNCHANGED <<now, lockFile, stateFile, tmpFile, backups, op, lockData,
                   state, entries, delivered, err, seenAtLoad, reclaimed>>
    /\ UNCHANGED auxVars

\* isLockValid's "await fs.unlink(this.lockFile)"; ENOENT is swallowed by
\* the outer catch, which also returns false
AcqUnlink(p) ==
    /\ pc[p] = "acq_unlink"
    /\ lockFile' = NoFile
    /\ reclaimed' = [reclaimed EXCEPT ![p] = @ \/ lockFile.kind = "lock"]
    /\ pc' = [pc EXCEPT ![p] = "acq_create"]
    /\ UNCHANGED <<now, stateFile, tmpFile, backups, op, attempt, lockData,
                   state, entries, delivered, err, seenAtLoad>>
    /\ UNCHANGED auxVars

\* fs.writeFile(lockFile, ..., {flag: 'wx'}); EEXIST sleeps and retries.
\* On success acquireLock returns and its locals (attempt, lockData) end.
AcqCreate(p) ==
    /\ pc[p] = "acq_create"
    /\ IF lockFile = NoFile
       THEN /\ lockFile' = LockOf(p, lockData[p])
            /\ pc' = [pc EXCEPT ![p] = BodyOf(op[p])]
            /\ attempt' = [attempt EXCEPT ![p] = 0]
            /\ lockData' = [lockData EXCEPT ![p] = 0]
       ELSE /\ attempt' = [attempt EXCEPT ![p] = @ + 1]
            /\ pc' = [pc EXCEPT ![p] = "acq_check"]
            /\ UNCHANGED <<lockFile, lockData>>
    /\ UNCHANGED <<now, stateFile, tmpFile, backups, op, state,
                   entries, delivered, err, seenAtLoad, reclaimed>>
    /\ UNCHANGED auxVars

\* the loop ran out and acquireLock returns false instead of throwing: the
\* caller goes on into its try block
AcqFail_ReturnsFalse(p) ==
    /\ pc[p] = "acq_check"
    /\ attempt[p] >= MaxRetries
    /\ err' = [err EXCEPT ![p] = "lock"]
    /\ pc' = [pc EXCEPT ![p] = BodyOf(op[p])]
    /\ UNCHANGED <<now, lockFile, stateFile, tmpFile, backups, op, attempt,
                   lockData, state, entries, delivered, seenAtLoad, reclaimed>>
    /\ UNCHANGED auxVars

\* the loop ran out: throw "Failed to acquire lock after N attempts"; run()
\* records the error and rethrows
AcqFail(p) ==
    /\ pc[p] = "acq_check"
    /\ attempt[p] >= MaxRetries
    /\ ExitRun(p, "failed", "lock")
    /\ UNCHANGED <<now, lockFile, stateFile, tmpFile, backups>>
    /\ UNCHANGED auxVars

\* releaseLock() in the finally block of loadState / saveState: unlink the
\* lock file, whatever it holds.  After it loadState returns to run(),
\* saveState ends the run, an error propagates out of run().
releaseLock(p) ==
    /\ pc[p] = "release"
    /\ lockFile' = NoFile
    /\ IF err[p] # "none" THEN ExitRun(p, "failed", err[p])
       ELSE IF op[p] = "save" THEN ExitRun(p, "done", "none")
       ELSE /\ pc' = [pc EXCEPT ![p] = "loaded"]
            /\ reclaimed' = [reclaimed EXCEPT ![p] = FALSE]
            /\ UNCHANGED <<op, attempt, lockData, state, entries, delivered,
                           err, seenAtLoad>>
    /\ UNCHANGED <<now, stateFile, tmpFile, backups>>
    /\ UNCHANGED auxVars

\* -------------------------------------------------------------- loadState
\* loadStateFile(filePath) on the bytes f: "throw" when JSON.parse or the
\* object test rejects them, an empty state on ENOENT
loadStateFile(f) ==
    CASE f.kind = "none" -> createEmptyState
      [] f.kind = "state" -> f
      [] OTHER -> [kind |-> "throw"]

\* the backup names of readdir, sorted and reversed: newest first
RECURSIVE SortedDesc(_)
SortedDesc(S) ==
    IF S = {} THEN <<>>
    ELSE LET m == CHOOSE x \in S : \A y \in S : y <= x
         IN <<m>> \o SortedDesc(S \ {m})

\* recoverFromBackup()'s loop over the names: the first backup that loads
\* and validates, or null ([kind |-> "none"]) when none does
RECURSIVE firstValid(_, _)
firstValid(names, dir) ==
    IF names = <<>> THEN NoFile
    ELSE LET s == loadStateFile(dir[Head(names)])
         IN IF s.kind = "throw" THEN firstValid(Tail(names), dir)
            ELSE validateState(s)

recoverFromBackup(dir) == firstValid(SortedDesc(DOMAIN dir), dir)

\* loadState's try block: loadStateFile + validateState.  On success the
\* finally block is next; on a throw the catch block starts recovery.
LoadRead(p) ==
    /\ pc[p] = "ld_read"
    /\ LET s == loadStateFile(stateFile) IN
        IF s.kind = "throw"
        THEN /\ pc' = [pc EXCEPT ![p] = "ld_recover"]
             /\ UNCHANGED <<state, seenAtLoad>>
        ELSE /\ state' = [state EXCEPT ![p] = validateState(s)]
             /\ seenAtLoad' = [seenAtLoad EXCEPT ![p] =
                    IF stateFile.kind = "state" THEN DOMAIN stateFile.seen ELSE {}]
             /\ pc' = [pc EXCEPT ![p] = "release"]
    /\ UNCHANGED <<now, lockFile, stateFile, tmpFile, backups, op, attempt,
                   lockData, entries, delivered, err, reclaimed>>
    /\ UNCHANGED auxVars

\* loadState's catch block up to its call of saveStateFile: the recovered
\* state, or createEmptyState() when recoverFromBackup returns null
LoadRecover(p) ==
    /\ pc[p] = "ld_recover"
    /\ LET r == recoverFromBackup(backups)
       IN state' = [state EXCEPT ![p] = IF r = NoFile THEN createEmptyState ELSE r]
    /\ pc' = [pc EXCEPT ![p] = "sf_open"]
    /\ UNCHANGED <<now, lockFile, stateFile, tmpFile, backups, op, attempt,
                   lockData, entries, delivered, err, seenAtLoad, reclaimed>>
    /\ UNCHANGED auxVars

\* ---------------------------------------------------------- saveStateFile
\* the state argument of saveStateFile: loadState passes the recovered or
\* new state, saveState passes validateState(state)
ToWrite(p) == IF op[p] = "save" THEN validateState(state[p]) ELSE state[p]

\* A process between its open of the temp file and the end of its write
\* holds a descriptor.  The descriptor follows the inode: a rename by
\* another process carries it to the primary path, an unlink orphans it.
FdAfterRename(c) ==
    CASE c = "sf_write" -> "sf_write_pri"
      [] c = "sf_write_pri" -> "sf_write_orph"
      [] OTHER -> c

FdAfterUnlink(c) == IF c = "sf_write" THEN "sf_write_orph" ELSE c

\* fs.writeFile(tempFile, ...), first half: open with flag 'w' creates or
\* truncates the file
SfOpen(p) ==
    /\ pc[p] = "sf_open"
    /\ tmpFile' = Corrupt
    /\ pc' = [pc EXCEPT ![p] = "sf_write"]
    /\ UNCHANGED <<now, lockFile, stateFile, backups, op, attempt, lockData,
                   state, entries, delivered, err, seenAtLoad, reclaimed>>
    /\ UNCHANGED auxVars

\* fs.writeFile(tempFile, ...), second half: the bytes reach the inode the
\* descriptor points to.  If another writer filled the same inode since
\* this open, the two writes race: the result is this state or a mixture.
SfWrite(p) ==
    /\ pc[p] \in {"sf_write", "sf_write_pri", "sf_write_orph"}
    /\ \/ /\ pc[p] = "sf_write"
          /\ \/ tmpFile' = ToWrite(p)
             \/ tmpFile.kind = "state" /\ tmpFile' = Corrupt
          /\ UNCHANGED stateFile
       \/ /\ pc[p] = "sf_write_pri"
          /\ \/ stateFile' = ToWrite(p)
             \/ stateFile.kind = "state" /\ stateFile' = Corrupt
          /\ UNCHANGED tmpFile
       \/ /\ pc[p] = "sf_write_orph"
          /\ UNCHANGED <<stateFile, tmpFile>>
    /\ pc' = [pc EXCEPT ![p] = "sf_rename"]
    /\ UNCHANGED <<now, lockFile, backups, op, attempt, lockData, state,
                   entries, delivered, err, seenAtLoad, reclaimed>>
    /\ UNCHANGED auxVars

\* fs.rename(tempFile, filePath); ENOENT when the temp file is gone takes
\* the catch branch (the cleanup unlink then finds nothing)
SfRename(p) ==
    /\ pc[p] = "sf_rename"
    /\ IF tmpFile = NoFile
       THEN /\ err' = [err EXCEPT ![p] = "io"]
            /\ pc' = [pc EXCEPT ![p] = "release"]
            /\ UNCHANGED <<stateFile, tmpFile>>
       ELSE /\ stateFile' = tmpFile
            /\ tmpFile' = NoFile
            /\ pc' = [q \in Procs |->
                        IF q = p THEN (IF op[p] = "load" THEN "release" ELSE "sv_cleanup")
                        ELSE FdAfterRename(pc[q])]
            /\ UNCHANGED err
    /\ UNCHANGED <<now, lockFile, backups, op, attempt, lockData, state,
                   entries, delivered, seenAtLoad, reclaimed>>
    /\ UNCHANGED auxVars

\* the error leaves loadState / saveState without passing through a
\* finally block
SfError_NoFinally(p) ==
    /\ pc[p] \in {"sf_open", "sf_write", "sf_write_pri", "sf_write_orph", "sf_rename"}
    /\ tmpFile' = NoFile
    /\ ExitRun(p, "failed", "io")
    /\ UNCHANGED <<now, lockFile, stateFile, backups>>
    /\ UNCHANGED auxVars

\* mkdir, writeFile or rename rejects (disk full, permissions): the catch
\* block unlinks the temp file and rethrows; the caller's finally follows
SfError(p) ==
    /\ pc[p] \in {"sf_open", "sf_write", "sf_write_pri", "sf_write_orph", "sf_rename"}
    /\ tmpFile' = NoFile
    /\ err' = [err EXCEPT ![p] = "io"]
    /\ pc' = [q \in Procs |-> IF q = p THEN "release" ELSE FdAfterUnlink(pc[q])]
    /\ UNCHANGED <<now, lockFile, stateFile, backups, op, attempt, lockData,
                   state, entries, delivered, seenAtLoad, reclaimed>>
    /\ UNCHANGED auxVars

\* -------------------------------------------------------------- saveState
\* createBackup(): copy the primary file to backupDir under a name made of
\* the current time; nothing to copy when the primary does not exist
createBackup(dir) ==
    IF stateFile = NoFile THEN dir
    ELSE [n \in DOMAIN dir \cup {now} |-> IF n = now THEN stateFile ELSE dir[n]]

\* cleanupOldBackups(): keep the first maxBackups names of the descending
\* sort, unlink the rest
cleanupOldBackups(dir) ==
    LET names == SortedDesc(DOMAIN dir)
        keep == {names[k] : k \in 1..(IF Len(names) < MaxBackups THEN Len(names) ELSE MaxBackups)}
    IN [n \in keep |-> dir[n]]

\* saveState's try block up to saveStateFile: validateState, createBackup
SaveBackup(p) ==
    /\ pc[p] = "sv_backup"
    /\ backups' = createBackup(backups)
    /\ pc' = [pc EXCEPT ![p] = "sf_open"]
    /\ UNCHANGED <<now, lockFile, stateFile, tmpFile, op, attempt, lockData,
                   state, entries, delivered, err, seenAtLoad, reclaimed>>
    /\ UNCHANGED auxVars

SaveCleanup(p) ==
    /\ pc[p] = "sv_cleanup"
    /\ backups' = cleanupOldBackups(backups)
    /\ pc' = [pc EXCEPT ![p] = "release"]
    /\ UNCHANGED <<now, lockFile, stateFile, tmpFile, op, attempt, lockData,
                   state, entries, delivered, err, seenAtLoad, reclaimed>>
    /\ UNCHANGED auxVars

\* -------------------------------------------------------------------- run
\* this.config.maxBackfillDays: config.js defines no such key and nothing
\* assigns one, so it is undefined in every run
maxBackfillDays == "undefined"

\* maxAgeMs = this.config.maxBackfillDays * 24 * 60 * 60 * 1000: the product
\* with undefined is NaN
maxAgeMs == IF maxBackfillDays = "undefined" THEN "NaN" ELSE maxBackfillDays

\* pubTs && now - pubTs > maxAgeMs: every comparison with NaN is false
tooOld(pubTs, t) == pubTs # 0 /\ maxAgeMs # "NaN" /\ t - pubTs > maxAgeMs

\* the filter callback without the "already seen" test
isNewEntry_NoSeenTest(i, st, t) ==
    LET lastRunTs == IF st.lastRun # 0 THEN st.lastRun ELSE 0
        pubTs == PubTs(i)
    IN AllowBackfill \/ (~(lastRunTs # 0 /\ pubTs < lastRunTs) /\ ~tooOld(pubTs, t))

\* the filter callback without the "older than last run" test
isNewEntry_NoLastRunTest(i, st, t) == i \notin DOMAIN st.seen

\* processFeeds' filter callback for one entry of a feed (the intra-run
\* set is irrelevant for a feed that lists each entry once)
isNewEntry(i, st, t) ==
    LET lastRunTs == IF st.lastRun # 0 THEN st.lastRun ELSE 0
        pubTs == PubTs(i)
    IN /\ i \notin DOMAIN st.seen
       /\ AllowBackfill \/ (~(lastRunTs # 0 /\ pubTs < lastRunTs) /\ ~tooOld(pubTs, t))

\* feedProcessor.processFeed(feed): the feed lists every item published
\* so far
feedEntries(t) == {i \in Items : PubTs(i) <= t}

\* processFeeds(feeds, state): the entries of the feed that pass the filter
\* callback become results.allEntries
ProcessFeeds(p) ==
    /\ pc[p] = "loaded"
    /\ entries' = [entries EXCEPT ![p] =
            {i \in feedEntries(now) : isNewEntry(i, state[p], now)}]
    /\ pc' = [pc EXCEPT ![p] = "processed"]
    /\ UNCHANGED <<now, lockFile, stateFile, tmpFile, backups, op, attempt,
                   lockData, state, delivered, err, seenAtLoad, reclaimed>>
    /\ UNCHANGED auxVars

\* filterAndClassifyEntries(results): the threat filter keeps any subset
FilterAndClassify(p) ==
    /\ pc[p] = "processed"
    /\ \E kept \in SUBSET entries[p] : entries' = [entries EXCEPT ![p] = kept]
    /\ pc' = [pc EXCEPT ![p] = "filtered"]
    /\ UNCHANGED <<now, lockFile, stateFile, tmpFile, backups, op, attempt,
                   lockData, state, delivered, err, seenAtLoad, reclaimed>>
    /\ UNCHANGED auxVars

\* outputEntries(filteredResults): sendEntry resolves for any subset of
\* the entries; a rejection is logged and the loop goes on
OutputEntries(p) ==
    /\ pc[p] = "filtered"
    /\ \E ok \in SUBSET entries[p] : delivered' = [delivered EXCEPT ![p] = ok]
    /\ pc' = [pc EXCEPT ![p] = "output"]
    /\ UNCHANGED <<now, lockFile, stateFile, tmpFile, backups, op, attempt,
                   lockData, state, entries, err, seenAtLoad, reclaimed>>
    /\ UNCHANGED auxVars

\* the comparator written as a - b: oldest first
sortedEntries_OldestFirst(seen) ==
    {s \in [1..Cardinality(DOMAIN seen) -> DOMAIN seen] :
        /\ \A i \in DOMAIN seen : \E k \in DOMAIN s : s[k] = i
        /\ \A k \in 1..(Len(s) - 1) : seen[s[k]] <= seen[s[k + 1]]}

\* Object.entries(state.seen).sort((a, b) => new Date(b[1].timestamp) -
\* new Date(a[1].timestamp)): the ids, newest timestamp first.  The sort is
\* stable, so records of equal timestamp stay in the order of
\* Object.entries, which is the order of the keys in the state file and is
\* not kept here: every order of such records is a possible result.
sortedEntries(seen) ==
    {s \in [1..Cardinality(DOMAIN seen) -> DOMAIN seen] :
        /\ \A i \in DOMAIN seen : \E k \in DOMAIN s : s[k] = i
        /\ \A k \in 1..(Len(s) - 1) : seen[s[k]] >= seen[s[k + 1]]}

\* updateState's clean-up: more than MaxSeen records are cut down to
\* Object.fromEntries(sortedEntries.slice(0, MaxSeen))
prunedSeen(seen) ==
    IF Cardinality(DOMAIN seen) <= MaxSeen THEN {seen}
    ELSE {[i \in {s[k] : k \in 1..MaxSeen} |-> seen[i]] : s \in sortedEntries(seen)}

\* updateState's loop: state.seen[entryId] = {timestamp: now, ...} for
\* every entry of filteredResults.entries
markedSeen(seen, ids) ==
    [i \in DOMAIN seen \cup ids |-> IF i \in ids THEN now ELSE seen[i]]

\* updateState(state, filteredResults) up to saveState()'s acquireLock():
\* every filtered entry is marked seen, lastRun is set, seen is pruned
UpdateState(p) ==
    /\ pc[p] = "output"
    /\ \E kept \in prunedSeen(markedSeen(state[p].seen, entries[p])) :
          state' = [state EXCEPT ![p] = RunState(kept, now)]
    /\ op' = [op EXCEPT ![p] = "save"]
    /\ attempt' = [attempt EXCEPT ![p] = 0]
    /\ lockData' = [lockData EXCEPT ![p] = now]
    /\ reclaimed' = [reclaimed EXCEPT ![p] = FALSE]
    /\ pc' = [pc EXCEPT ![p] = "acq_check"]
    /\ UNCHANGED <<now, lockFile, stateFile, tmpFile, backups,
                   entries, delivered, err, seenAtLoad>>
    /\ UNCHANGED auxVars

\* ------------------------------------------------------------ environment
\* the process is killed: nothing of run() executes any more, its files
\* stay as they are
Crash(p) ==
    /\ Alive(p)
    /\ ExitRun(p, "crashed", "none")
    /\ UNCHANGED <<now, lockFile, stateFile, tmpFile, backups>>
    /\ UNCHANGED auxVars

Tick ==
    /\ now < MaxTime
    /\ now' = now + 1
    /\ UNCHANGED <<lockFile, stateFile, tmpFile, backups, pc, op, attempt,
                   lockData, state, entries, delivered, err,
                   seenAtLoad, reclaimed>>
    /\ UNCHANGED auxVars

Next ==
    \/ Tick
    \/ \E p \in Procs :
        \/ StartRun(p) \/ AcqCheck(p) \/ AcqUnlink(p) \/ AcqCreate(p) \/ AcqFail(p)
        \/ releaseLock(p)
        \/ LoadRead(p) \/ LoadRecover(p)
        \/ SfOpen(p) \/ SfWrite(p) \/ SfRename(p) \/ SfError(p)
        \/ SaveBackup(p) \/ SaveCleanup(p)
        \/ ProcessFeeds(p) \/ FilterAndClassify(p) \/ OutputEntries(p) \/ UpdateState(p)
        \/ Crash(p)

Spec == Init /\ [][Next]_vars

\* ================================================== one run(), in detail
\* PipeSpec follows a single run() through processFeeds, the threat filter,
\* outputEntries with postToTeams' retry loop, updateState and recordRunEnd.
\* loadState and saveState are single steps here: their inner steps and
\* their interleavings with other runs are what Spec is about.

\* the entries parser.parseURL returns for feed f: each feed carries one
\* entry of its own, item f
FeedItems(f) == <<f>>

\* the entries of seq at the positions in keep, in order
RECURSIVE KeepSeq(_, _, _)
KeepSeq(seq, keep, k) ==
    IF k > Len(seq) THEN <<>>
    ELSE (IF k \in keep THEN <<seq[k]>> ELSE <<>>) \o KeepSeq(seq, keep, k + 1)

\* the items of a sequence of entries
Range(seq) == {seq[k] : k \in 1..Len(seq)}

Min(a, b) == IF a < b THEN a ELSE b

\* what the webhook can answer to one fetch: 2xx, 429 with or without a
\* Retry-After header (in seconds), another status, or no answer at all
\* (the abort timer fires or the connection fails and fetch rejects)
RetryAfters == {-1, 0, 2}

Responses ==
    {[status |-> st, retryAfter |-> -1] : st \in {"ok", "other", "abort"}}
        \cup {[status |-> "429", retryAfter |-> ra] : ra \in RetryAfters}

\* the argument run()'s catch block passes to recordRunEnd, as recordRunEnd
\* completes it: entriesProcessed and entriesPosted default to 0, there are
\* no filter statistics and no count of failed deliveries (-1)
FailureSummary ==
    [kind |-> "summary", success |-> FALSE, processed |-> 0, posted |-> 0,
     filtered |-> -1, failed |-> -1]

\* run()'s catch block: recordError, recordRunEnd({success: false, error}),
\* rethrow
AbortRun ==
    /\ step' = "end"
    /\ summary' = FailureSummary

PipeInit ==
    /\ now = MaxTime
    /\ stateFile \in {NoFile, PrevState, Corrupt}
    /\ backups = <<>>
    /\ lockFile = NoFile
    /\ tmpFile = NoFile
    /\ pc = [p \in Procs |-> "idle"]
    /\ op = [p \in Procs |-> "load"]
    /\ attempt = [p \in Procs |-> 0]
    /\ lockData = [p \in Procs |-> 0]
    /\ state = [p \in Procs |-> createEmptyState]
    /\ entries = [p \in Procs |-> {}]
    /\ delivered = [p \in Procs |-> {}]
    /\ err = [p \in Procs |-> "none"]
    /\ seenAtLoad = [p \in Procs |-> {}]
    /\ reclaimed = [p \in Procs |-> FALSE]
    /\ PipeIdle
    /\ ValIdle
    /\ FnIdle

\* the constructor reads --dry-run / DRY_RUN; run() records the run start
\* and loads feeds.json, whose read or validation error is fatal
PipeStart ==
    /\ step = "idle"
    /\ \E d \in BOOLEAN : dryRun' = d
    /\ \/ step' = "load" /\ UNCHANGED summary
       \/ AbortRun
    /\ UNCHANGED <<feedIdx, feedResults, allEntries, filtered, outIdx,
                   totalPosted, postedThisRun, runState, postAttempt, delayMs,
                   resp, fetches, waited, sinkOk, sendFailed>>
    /\ UNCHANGED <<now, stateFile, backups, procVars, valVars, fnVars>>

\* stateManager.loadState() as one step: the validated primary state; for
\* an unreadable primary the recovered or empty state, which loadState also
\* writes to the primary file; or the lock / write error, which is fatal
PipeLoadState ==
    /\ step = "load"
    /\ LET s == loadStateFile(stateFile)
           r == recoverFromBackup(backups)
           rec == IF r = NoFile THEN createEmptyState ELSE r
       IN \/ /\ s.kind # "throw"
             /\ runState' = validateState(s)
             /\ step' = "feeds"
             /\ UNCHANGED <<stateFile, summary>>
          \/ /\ s.kind = "throw"
             /\ runState' = rec
             /\ stateFile' = rec
             /\ step' = "feeds"
             /\ UNCHANGED summary
          \/ /\ AbortRun
             /\ UNCHANGED <<stateFile, runState>>
    /\ UNCHANGED <<dryRun, feedIdx, feedResults, allEntries, filtered, outIdx,
                   totalPosted, postedThisRun, postAttempt, delayMs, resp,
                   fetches, waited, sinkOk, sendFailed>>
    /\ UNCHANGED <<now, backups, procVars, valVars, fnVars>>

\* the position after feed feedIdx: the next feed, or the end of the loop
AfterFeed == IF feedIdx = NumFeeds THEN "filter" ELSE "feeds"

\* processFeeds' loop body for one feed whose fetch and parse succeed: the
\* entries that pass the filter callback are appended to results.allEntries
PipeFeedOk ==
    /\ step = "feeds"
    /\ LET items == FeedItems(feedIdx)
           new == {k \in 1..Len(items) : isNewEntry(items[k], runState, now)}
       IN allEntries' = allEntries \o KeepSeq(items, new, 1)
    /\ feedResults' = [feedResults EXCEPT ![feedIdx] = "ok"]
    /\ feedIdx' = feedIdx + 1
    /\ step' = AfterFeed
    /\ UNCHANGED <<dryRun, filtered, outIdx, totalPosted, postedThisRun,
                   runState, postAttempt, delayMs, resp, fetches, waited,
                   sinkOk, sendFailed, summary>>
    /\ UNCHANGED <<now, stateFile, backups, procVars, valVars, fnVars>>

\* the error of one feed leaves processFeeds: run()'s catch block is next
PipeFeedFails_Rethrows ==
    /\ step = "feeds"
    /\ feedResults' = [feedResults EXCEPT ![feedIdx] = "failed"]
    /\ AbortRun
    /\ UNCHANGED <<dryRun, feedIdx, allEntries, filtered, outIdx, totalPosted,
                   postedThisRun, runState, postAttempt, delayMs, resp,
                   fetches, waited, sinkOk, sendFailed>>
    /\ UNCHANGED <<now, stateFile, backups, procVars, valVars, fnVars>>

\* processFeeds' loop body for one feed whose processFeed rejects: the catch
\* block records the failure under the feed's name and the loop goes on
PipeFeedFails ==
    /\ step = "feeds"
    /\ feedResults' = [feedResults EXCEPT ![feedIdx] = "failed"]
    /\ feedIdx' = feedIdx + 1
    /\ step' = AfterFeed
    /\ UNCHANGED <<dryRun, allEntries, filtered, outIdx, totalPosted,
                   postedThisRun, runState, postAttempt, delayMs, resp,
                   fetches, waited, sinkOk, sendFailed, summary>>
    /\ UNCHANGED <<now, stateFile, backups, procVars, valVars, fnVars>>

\* filterAndClassifyEntries(results): the threat filter drops any of the
\* entries; an entry whose filterEntry throws is kept
PipeFilter ==
    /\ step = "filter"
    /\ \E keep \in SUBSET (1..Len(allEntries)) :
            filtered' = KeepSeq(allEntries, keep, 1)
    /\ step' = "output"
    /\ UNCHANGED <<dryRun, feedIdx, feedResults, allEntries, outIdx,
                   totalPosted, postedThisRun, runState, postAttempt, delayMs,
                   resp, fetches, waited, sinkOk, sendFailed, summary>>
    /\ UNCHANGED <<now, stateFile, backups, procVars, valVars, fnVars>>

\* the cap test written with > instead of >=
capReached_OffByOne(n) == n > PostCap

\* outputEntries: postedThisRun >= postCap
capReached(n) == n >= PostCap

\* outputEntries up to the next sendEntry call: the dry-run return, the end
\* of the loop (by exhaustion or by the cap), or the call
PipeOutputNext ==
    /\ step = "output"
    /\ IF dryRun \/ outIdx > Len(filtered) \/ capReached(postedThisRun)
       THEN /\ step' = "update"
            /\ UNCHANGED <<postAttempt, delayMs, resp, fetches, waited>>
       ELSE /\ step' = "post"
            /\ postAttempt' = 0
            /\ delayMs' = BaseDelayMs
            /\ resp' = NoResp
            /\ fetches' = 0
            /\ waited' = -1
    /\ UNCHANGED <<dryRun, feedIdx, feedResults, allEntries, filtered, outIdx,
                   totalPosted, postedThisRun, runState, sinkOk, sendFailed,
                   summary>>
    /\ UNCHANGED <<now, stateFile, backups, procVars, valVars, fnVars>>

\* the rejection of sendEntry leaves outputEntries: run()'s catch is next
PipeSendThrows_Rethrows ==
    /\ step = "post"
    /\ fetches = 0
    /\ sendFailed' = sendFailed \cup {outIdx}
    /\ AbortRun
    /\ UNCHANGED <<dryRun, feedIdx, feedResults, allEntries, filtered, outIdx,
                   totalPosted, postedThisRun, runState, postAttempt, delayMs,
                   resp, fetches, waited, sinkOk>>
    /\ UNCHANGED <<now, stateFile, backups, procVars, valVars, fnVars>>

\* sendEntry rejects before postToTeams is reached (processEntry rethrows
\* what addEntry or sendToTeams throw): outputEntries' catch block records
\* the error, counts nothing and the loop goes on
PipeSendThrows ==
    /\ step = "post"
    /\ fetches = 0
    /\ sendFailed' = sendFailed \cup {outIdx}
    /\ outIdx' = outIdx + 1
    /\ step' = "output"
    /\ UNCHANGED <<dryRun, feedIdx, feedResults, allEntries, filtered,
                   totalPosted, postedThisRun, runState, postAttempt, delayMs,
                   resp, fetches, waited, sinkOk, summary>>
    /\ UNCHANGED <<now, stateFile, backups, procVars, valVars, fnVars>>

\* the loop test written as attempt < maxRetries
canAttempt_OffByOne(a) == a < TeamsMaxRetries

\* postToTeams: while (attempt <= maxRetries)
canAttempt(a) == a <= TeamsMaxRetries

\* postToTeams: response.status === 429 && attempt < maxRetries
shouldRetry(r, a) == r.status = "429" /\ a < TeamsMaxRetries

\* the Retry-After header is ignored
retryMs_IgnoresHeader(r, d) == d

\* postToTeams: retryAfter ? Number(retryAfter) * 1000 : delayMs
retryMs(r, d) == IF r.retryAfter # -1 THEN r.retryAfter * 1000 ELSE d

\* postToTeams has returned ok (true or false) for the entry at outIdx.
\* sendToTeams wraps either value in {success: true, result}, sendEntry
\* resolves, and outputEntries counts the entry as posted.
SendReturns(ok) ==
    /\ sinkOk' = IF ok THEN sinkOk \cup {outIdx} ELSE sinkOk
    /\ sendFailed' = IF ok THEN sendFailed ELSE sendFailed \cup {outIdx}
    /\ totalPosted' = totalPosted + 1
    /\ postedThisRun' = postedThisRun + 1
    /\ outIdx' = outIdx + 1
    /\ step' = "output"

\* one pass of postToTeams' while loop: fetch, then return true (2xx),
\* sleep and retry (429 with retries left), or return false (any other
\* response, a rejected fetch, or the loop running out)
PostToTeams ==
    /\ step = "post"
    /\ IF ~canAttempt(postAttempt)
       THEN /\ SendReturns(FALSE)
            /\ UNCHANGED <<postAttempt, delayMs, resp, fetches, waited>>
       ELSE \E r \in Responses :
            /\ resp' = r
            /\ fetches' = fetches + 1
            /\ IF r.status = "ok"
               THEN /\ SendReturns(TRUE)
                    /\ UNCHANGED <<postAttempt, delayMs, waited>>
               ELSE IF r.status # "abort" /\ shouldRetry(r, postAttempt)
               THEN /\ waited' = retryMs(r, delayMs)
                    /\ postAttempt' = postAttempt + 1
                    /\ delayMs' = Min(delayMs * 2, MaxDelayMs)
                    /\ UNCHANGED <<sinkOk, sendFailed, totalPosted,
                                   postedThisRun, outIdx, step>>
               ELSE /\ SendReturns(FALSE)
                    /\ UNCHANGED <<postAttempt, delayMs, waited>>
    /\ UNCHANGED <<dryRun, feedIdx, feedResults, allEntries, filtered,
                   runState, summary>>
    /\ UNCHANGED <<now, stateFile, backups, procVars, valVars, fnVars>>

\* updateState(state, filteredResults): every filtered entry is marked
\* seen, lastRun is set, and seen is pruned; the states it can hand to
\* saveState
updatedState(st) ==
    {RunState(kept, now) : kept \in prunedSeen(markedSeen(st.seen, Range(filtered)))}

\* updateState() with saveState() as one step: backup, write and cleanup;
\* or the lock error (nothing written); or a write error after the backup
\* was made.  Either error is fatal.
PipeUpdateState ==
    /\ step = "update"
    /\ \E st \in updatedState(runState) : runState' = st
    /\ \/ /\ backups' = cleanupOldBackups(createBackup(backups))
          /\ stateFile' = validateState(runState')
          /\ step' = "saved"
          /\ UNCHANGED summary
       \/ /\ AbortRun
          /\ UNCHANGED <<stateFile, backups>>
       \/ /\ AbortRun
          /\ backups' = createBackup(backups)
          /\ UNCHANGED stateFile
    /\ UNCHANGED <<dryRun, feedIdx, feedResults, allEntries, filtered, outIdx,
                   totalPosted, postedThisRun, postAttempt, delayMs, resp,
                   fetches, waited, sinkOk, sendFailed>>
    /\ UNCHANGED <<now, procVars, valVars, fnVars>>

\* run()'s recordRunEnd({success: true, entriesProcessed: totalEntries,
\* entriesPosted: totalPosted, feedResults, filterStats}); outputEntries
\* returns no count of failed deliveries and none is passed on (-1)
PipeRecordRunEnd ==
    /\ step = "saved"
    /\ summary' = [kind |-> "summary", success |-> TRUE,
                   processed |-> Len(allEntries),
                   posted |-> totalPosted,
                   filtered |-> Len(allEntries) - Len(filtered),
                   failed |-> -1]
    /\ step' = "end"
    /\ UNCHANGED <<dryRun, feedIdx, feedResults, allEntries, filtered, outIdx,
                   totalPosted, postedThisRun, runState, postAttempt, delayMs,
                   resp, fetches, waited, sinkOk, sendFailed>>
    /\ UNCHANGED <<now, stateFile, backups, procVars, valVars, fnVars>>

PipeNext ==
    \/ PipeStart \/ PipeLoadState
    \/ PipeFeedOk \/ PipeFeedFails
    \/ PipeFilter
    \/ PipeOutputNext \/ PipeSendThrows \/ PostToTeams
    \/ PipeUpdateState \/ PipeRecordRunEnd

PipeSpec == PipeInit /\ [][PipeNext]_vars

\* ===================================================== validateState
\* ValidateSpec applies validateState to one parsed state file, as
\* loadState does, and then to the object updateState hands to saveState.
\* A field is known by what validateState tests of it: its type and
\* truthiness, and for lastRun whether the string is a date.
SeenKinds == {"missing", "null", "object", "array", "string"}
StatsKinds == {"missing", "null", "object", "string"}
\* "empty" is the empty string, "zero" the number 0
LastRunKinds == {"missing", "null", "date", "baddate", "empty", "zero", "number"}
VersionKinds == {"missing", "null", "2.0", "1.0"}

\* what JSON.parse can hand to validateState: an object with any of the
\* five fields present or not, or a value that is not an object
ParsedInputs ==
    {ParsedState("object", a, b, c, d, e) :
        a \in SeenKinds, b \in LastRunKinds, c \in StatsKinds,
        d \in StatsKinds, e \in VersionKinds}
      \cup {ParsedState("null", "missing", "missing", "missing", "missing", "missing")}

\* {seen: {}, lastRun: null, feedStats: {}, filterStats: {}, version: '2.0'}
DefaultFields == ParsedState("object", "object", "null", "object", "object", "2.0")

\* {...defaults, ...state}: a key of state, whatever its value, replaces
\* the default
Spread(dflt, v) == IF v = "missing" THEN dflt ELSE v

\* typeof v === 'object' && v !== null
IsObject(v) == v \in {"object", "array"}

\* the value is truthy
Truthy(v) == v \notin {"missing", "null", "empty", "zero"}

\* validateState(state), field by field
validateStateFields(s) ==
    IF s.kind # "object" THEN DefaultFields
    ELSE LET seen == Spread("object", s.seen)
             lastRun == Spread("null", s.lastRun)
             feedStats == Spread("object", s.feedStats)
             filterStats == Spread("object", s.filterStats)
             version == Spread("2.0", s.version)
         IN ParsedState("object",
                IF IsObject(seen) THEN seen ELSE "object",
                IF Truthy(lastRun) /\ lastRun # "date" THEN "null" ELSE lastRun,
                IF IsObject(feedStats) THEN feedStats ELSE "object",
                IF IsObject(filterStats) THEN filterStats ELSE "object",
                version)

ValidateInit ==
    /\ now = StartTime
    /\ stateFile = NoFile
    /\ backups = <<>>
    /\ lockFile = NoFile
    /\ tmpFile = NoFile
    /\ pc = [p \in Procs |-> "idle"]
    /\ op = [p \in Procs |-> "load"]
    /\ attempt = [p \in Procs |-> 0]
    /\ lockData = [p \in Procs |-> 0]
    /\ state = [p \in Procs |-> createEmptyState]
    /\ entries = [p \in Procs |-> {}]
    /\ delivered = [p \in Procs |-> {}]
    /\ err = [p \in Procs |-> "none"]
    /\ seenAtLoad = [p \in Procs |-> {}]
    /\ reclaimed = [p \in Procs |-> FALSE]
    /\ PipeIdle
    /\ vsIn \in ParsedInputs
    /\ vsOut = NoObject
    /\ vsBy = "none"
    /\ FnIdle

\* loadState: validateState(await loadStateFile(stateFile)) is returned
ValidateOnLoad ==
    /\ vsBy = "none"
    /\ vsOut' = validateStateFields(vsIn)
    /\ vsBy' = "load"
    /\ UNCHANGED <<vsIn, now, stateFile, backups, procVars, pipeVars, fnVars>>

\* updateState writes entries into state.seen and sets lastRun and
\* filterStats; saveState writes validateState(state)
ValidateOnSave ==
    /\ vsBy = "load"
    /\ vsIn' = [vsOut EXCEPT !.lastRun = "date", !.filterStats = "object"]
    /\ vsOut' = validateStateFields(vsIn')
    /\ vsBy' = "save"
    /\ UNCHANGED <<now, stateFile, backups, procVars, pipeVars, fnVars>>

ValidateNext == ValidateOnLoad \/ ValidateOnSave

ValidateSpec == ValidateInit /\ [][ValidateNext]_vars

\* ================================================================ claims
\* positions between a successful acquireLock and the end of releaseLock
HoldingPcs == {"ld_read", "ld_recover", "sv_backup", "sf_open", "sf_write",
               "sf_write_pri", "sf_write_orph", "sf_rename", "sv_cleanup",
               "release"}

AcquirePcs == {"acq_check", "acq_unlink", "acq_create"}

\* process p took the step: every action of a process changes its pc or
\* its attempt counter
Moved(p) == pc'[p] # pc[p] \/ attempt'[p] # attempt[p]

\* C1: when both runs have completed (loaded, updated and saved), every id
\* that either run recorded as seen is in the persisted seen-map.
C1_NoLostUpdate ==
    (\A p \in Procs : pc[p] = "done")
        => /\ stateFile.kind = "state"
           /\ \A p \in Procs : entries[p] \subseteq DOMAIN stateFile.seen

\* C2: at most one invocation is between its successful acquireLock and
\* its releaseLock.
C2_MutualExclusion ==
    Cardinality({p \in Procs : pc[p] \in HoldingPcs}) <= 1

\* C3: an item whose id was in the persisted seen-map when the run loaded
\* its state is neither passed on by processFeeds nor delivered by that run.
C3_SeenNotDelivered ==
    \A p \in Procs : /\ delivered[p] \cap seenAtLoad[p] = {}
                     /\ pc[p] \in {"processed", "filtered", "output"}
                            => entries[p] \cap seenAtLoad[p] = {}

\* a run has delivered a new item although the feed also listed item 1,
\* which was in the persisted seen-map
C3_Witness ==
    \E p \in Procs : /\ pc[p] = "output"
                     /\ 1 \in seenAtLoad[p]
                     /\ delivered[p] # {}

\* C4: the primary file only ever changes from one complete state to the
\* complete state that a saveStateFile call is writing; no step leaves it
\* truncated or partially written.
C4_PrimaryOldOrNew ==
    [][stateFile' # stateFile =>
          \E p \in Procs : /\ pc[p] \in {"sf_rename", "sf_write_pri"}
                           /\ stateFile' = ToWrite(p)]_vars

\* the lock file is stale: older than the timeout, or its owner is gone
StaleLock(lf) ==
    /\ lf.kind = "lock"
    /\ \/ now - lf.timestamp > LockTimeout
       \/ lf.hostname = Hostname /\ ~Alive(lf.pid)

\* C5: an acquireLock pass that finds a stale lock does not wait or use up
\* a retry: it goes on to unlink the lock file, and its exclusive create on
\* the then free path makes this process the owner, without error.
C5_StaleLockReclaimed ==
    [][\A p \in Procs : (Moved(p) /\ pc'[p] # "crashed") =>
          /\ (pc[p] = "acq_check" /\ attempt[p] < MaxRetries /\ StaleLock(lockFile))
                => (pc'[p] = "acq_unlink" /\ attempt'[p] = attempt[p])
          /\ pc[p] = "acq_unlink"
                => (lockFile' = NoFile /\ pc'[p] = "acq_create" /\ attempt'[p] = attempt[p])
          /\ (pc[p] = "acq_create" /\ lockFile = NoFile)
                => /\ lockFile' = LockOf(p, lockData[p])
                   /\ pc'[p] \in HoldingPcs
                   /\ err'[p] = "none"]_vars

\* a process removed a stale lock and now owns the lock file
C5_Witness ==
    \E p \in Procs : /\ reclaimed[p]
                     /\ pc[p] \in HoldingPcs
                     /\ lockFile.kind = "lock" /\ lockFile.pid = p

\* C6: outside its own loadState / saveState calls no process owns the
\* lock file: each call that acquired the lock has unlinked it when the
\* call ends, by return or by error.
C6_LockReleased ==
    \A p \in Procs : pc[p] \notin (HoldingPcs \cup {"crashed"})
                        => ~(lockFile.kind = "lock" /\ lockFile.pid = p)

\* a call ended with a write error and the lock file is gone
C6_Witness ==
    \E p \in Procs : pc[p] = "failed" /\ err[p] = "io" /\ lockFile = NoFile

\* C7: acquireLock makes at most MaxRetries passes; once they are used up
\* its next step is the lock-acquisition error.
C7_AcquireTerminates ==
    [][\A p \in Procs :
          /\ attempt'[p] <= MaxRetries
          /\ pc'[p] \in {"acq_unlink", "acq_create"} => attempt'[p] < MaxRetries
          /\ (pc[p] = "acq_check" /\ attempt[p] >= MaxRetries /\ Moved(p)
                 /\ pc'[p] # "crashed")
                => (pc'[p] = "failed" /\ err'[p] = "lock")]_vars

\* a run gave up with the lock error while the other, live run owns the lock
C7_Witness ==
    \E p, q \in Procs : /\ p # q
                        /\ pc[p] = "failed" /\ err[p] = "lock"
                        /\ lockFile.kind = "lock" /\ lockFile.pid = q
                        /\ pc[q] \in HoldingPcs

\* C8: no step of acquireLock changes the primary file, the temp file or
\* the backups, and a run whose acquireLock failed takes no further step.
C8_LockFailureFrame ==
    [][\A p \in Procs :
          /\ (pc[p] \in AcquirePcs /\ Moved(p))
                => (stateFile' = stateFile /\ tmpFile' = tmpFile /\ backups' = backups)
          /\ err[p] = "lock" => (pc'[p] = pc[p] /\ err'[p] = "lock")]_vars

\* saveState's acquireLock failed after the run had delivered entries
C8_Witness ==
    \E p \in Procs : pc[p] = "failed" /\ err[p] = "lock" /\ delivered[p] # {}

\* recoverFromBackup's result, stated directly: the state of the newest
\* backup that parses, or an empty state
NewestReadable(dir) ==
    LET ok == {n \in DOMAIN dir : dir[n].kind = "state"}
    IN IF ok = {} THEN createEmptyState
       ELSE LET n == CHOOSE m \in ok : \A k \in ok : k <= m
            IN RunState(dir[n].seen, IF dir[n].lastRun > 0 THEN dir[n].lastRun ELSE 0)

\* C9: a loadState that found the primary unreadable takes the newest
\* readable backup (or an empty state), does not end in an error, and its
\* rename makes that state the primary file.
C9_RecoveryNeverFails ==
    [][\A p \in Procs : (op[p] = "load" /\ Moved(p) /\ pc'[p] # "crashed") =>
          /\ pc[p] = "ld_recover" => state'[p] = NewestReadable(backups)
          /\ pc[p] \in {"ld_recover", "sf_open", "sf_write", "sf_write_pri",
                        "sf_write_orph", "sf_rename"} => err'[p] = "none"
          /\ pc[p] = "sf_rename" => stateFile' = state[p]]_vars

\* item i is older than the last run and was never seen, in the state the
\* run loaded
OldUnseen(i, st) ==
    /\ ~AllowBackfill
    /\ st.lastRun > 0
    /\ PubTs(i) < st.lastRun
    /\ i \notin DOMAIN st.seen

\* C10: a never-seen item published before the loaded lastRun is not among
\* the entries the run classifies or delivers, and updateState does not add
\* it to seen.
C10_BackfillGuard ==
    [][\A p \in Procs : \A i \in Items : OldUnseen(i, state[p]) =>
          /\ (pc[p] \in {"loaded", "processed", "filtered", "output"}
                /\ pc'[p] \in {"processed", "filtered", "output"})
                => i \notin (entries'[p] \cup delivered'[p])
          /\ (pc[p] = "output" /\ pc'[p] = "acq_check")
                => i \notin DOMAIN state'[p].seen]_vars

\* a run delivered a fresh item while item 1, never seen and published
\* before lastRun, was listed by the feed
C10_Witness ==
    \E p \in Procs : /\ pc[p] = "output"
                     /\ OldUnseen(1, state[p])
                     /\ delivered[p] # {}

\* ------------------------------------------------------ claims on PipeSpec
\* positions of filtered for which sendEntry has been called and has ended
Attempted == sinkOk \cup sendFailed

\* C11: a send that ends in failure (sendEntry rejects, or postToTeams gives
\* up on a non-success response, a timeout or exhausted retries) leaves the
\* run in outputEntries' loop at the next entry and reports no run end; and
\* the loop is only left, towards updateState, when every entry has been
\* attempted or the cap is reached.
C11_DeliveryFailureIsolated ==
    [][/\ sendFailed' # sendFailed
            => /\ step' = "output"
               /\ outIdx' = outIdx + 1
               /\ summary' = NoSummary
       /\ (step = "output" /\ step' # "post" /\ ~dryRun)
            => /\ step' = "update"
               /\ \/ postedThisRun >= PostCap
                  \/ \A k \in 1..Len(filtered) : k \in Attempted]_vars

\* the state was saved by a run in which a delivery failed and a later
\* entry was delivered
C11_Witness ==
    /\ step = "saved"
    /\ \E k \in sendFailed : \E j \in sinkOk : j > k
    /\ stateFile = validateState(runState)

\* C12: a feed whose processing fails is recorded as failed, for that feed
\* only; nothing is added to the entries and no run end is reported; the
\* loop goes on with the next feed and ends only when every feed has a result.
C12_SourceFailureIsolated ==
    [][/\ (step = "feeds" /\ feedResults'[feedIdx] = "failed")
            => /\ feedIdx' = feedIdx + 1
               /\ step' \in {"feeds", "filter"}
               /\ allEntries' = allEntries
               /\ summary' = NoSummary
               /\ \A g \in Feeds \ {feedIdx} : feedResults'[g] = feedResults[g]
       /\ (step = "feeds" /\ step' = "filter")
            => \A f \in Feeds : feedResults'[f] # "none"]_vars

\* the run completed and saved its state although the first feed failed;
\* a later feed was processed and its entry delivered
C12_Witness ==
    /\ step = "end"
    /\ summary.success
    /\ feedResults[1] = "failed"
    /\ \E f \in Feeds : f > 1 /\ feedResults[f] = "ok"
    /\ sinkOk # {}
    /\ stateFile = validateState(runState)

\* C13: inside postToTeams every fetch so far was answered 429 and retried,
\* and the loop has not run out; a 429 with retries left is followed by
\* another attempt; a success answer to attempt number k+1 ends the call
\* after exactly k+1 fetches with the entry accepted by the sink and
\* counted as posted; and the call never returns without a fetch.
C13_RetryThenSuccess ==
    [][/\ step' = "post" => (fetches' = postAttempt' /\ postAttempt' <= TeamsMaxRetries)
       /\ (step = "post" /\ step' = "post" /\ fetches' # fetches)
            => resp'.status = "429"
       /\ (step = "post" /\ fetches' # fetches /\ resp'.status = "429"
              /\ postAttempt < TeamsMaxRetries)
            => (step' = "post" /\ postAttempt' = postAttempt + 1)
       /\ (step = "post" /\ fetches' # fetches /\ resp'.status = "ok")
            => /\ fetches' = postAttempt + 1
               /\ outIdx \in sinkOk'
               /\ totalPosted' = totalPosted + 1
               /\ step' = "output"
       /\ (step = "post" /\ totalPosted' # totalPosted)
            => fetches' = fetches + 1]_vars

\* three 429 answers, then success: four fetches, the entry delivered
C13_Witness ==
    /\ step = "output"
    /\ resp.status = "ok"
    /\ postAttempt = 3
    /\ fetches = 4
    /\ (outIdx - 1) \in sinkOk

\* C14: when the sink answers 429 to the last attempt the loop allows,
\* postToTeams has made TeamsMaxRetries + 1 fetches and stops, and the
\* entry is a delivery failure: not accepted by the sink and not counted
\* as posted.
C14_ExhaustedIsFailure ==
    [][(step = "post" /\ fetches' # fetches /\ resp'.status = "429"
           /\ postAttempt >= TeamsMaxRetries)
         => /\ step' = "output"
            /\ fetches' = TeamsMaxRetries + 1
            /\ outIdx \in sendFailed'
            /\ outIdx \notin sinkOk'
            /\ totalPosted' = totalPosted]_vars

C16_DeliveredCount ==
    /\ step \in {"output", "update", "saved", "end"}
            => totalPosted = Cardinality(sinkOk)
    /\ (summary # NoSummary /\ summary.success)
            => summary.posted = Cardinality(sinkOk)

\* C17: a run that has ended has reported a summary whose processed, posted,
\* filtered and failed counts are those of the run.
C17_SummaryAlwaysReported ==
    step = "end"
        => /\ summary # NoSummary
           /\ summary.processed = Len(allEntries)
           /\ summary.posted = totalPosted
           /\ summary.filtered = Len(allEntries) - Len(filtered)
           /\ summary.failed = Cardinality(sendFailed)

\* C18: no step of a dry run fetches the webhook, writes the primary state
\* file or changes the backups.
C18_DryRunFrame ==
    [][dryRun => /\ fetches' = fetches
                 /\ stateFile' = stateFile
                 /\ backups' = backups]_vars

\* C19: the sends that reach the sink, the one in progress included, never
\* number more than PostCap, and so neither do the entries it accepted.
C19_PostCap ==
    /\ postedThisRun + (IF step = "post" THEN 1 ELSE 0) <= PostCap
    /\ Cardinality(sinkOk) <= postedThisRun

\* the loop ended at the cap with an accepted entry still unsent
C19_Witness ==
    /\ step = "update"
    /\ ~dryRun
    /\ postedThisRun = PostCap
    /\ outIdx <= Len(filtered)

\* -------------------------------------------------- claims on ValidateSpec
\* C20: the state loadState returns and the state saveState writes have
\* objects for seen, feedStats and filterStats, null or a date string for
\* lastRun, and a version that is present and not null: '2.0' when the
\* argument's version was missing or null.
C20_Normalized ==
    vsBy # "none"
        => /\ IsObject(vsOut.seen)
           /\ IsObject(vsOut.feedStats)
           /\ IsObject(vsOut.filterStats)
           /\ vsOut.lastRun \in {"null", "date"}
           /\ vsOut.version \notin {"missing", "null"}
           /\ vsIn.version \in {"missing", "null"} => vsOut.version = "2.0"

\* C21: the seen-map that updateState hands to saveState, and that saveState
\* writes, holds at most MaxSeen records; they are records of the map as
\* it was after the entries were marked; nothing is dropped unless there
\* were more than MaxSeen, and no dropped record is newer than a kept one.
C21_SeenPruned ==
    [][(step = "update" /\ step' = "saved") =>
          LET new == Range(filtered)
              all == [i \in DOMAIN runState.seen \cup new |->
                         IF i \in new THEN now ELSE runState.seen[i]]
              kept == stateFile'.seen
          IN /\ Cardinality(DOMAIN kept) <= MaxSeen
             /\ DOMAIN kept \subseteq DOMAIN all
             /\ \A i \in DOMAIN kept : kept[i] = all[i]
             /\ Cardinality(DOMAIN kept) =
                    (IF Cardinality(DOMAIN all) > MaxSeen THEN MaxSeen
                     ELSE Cardinality(DOMAIN all))
             /\ \A d \in DOMAIN all \ DOMAIN kept :
                    \A k \in DOMAIN kept : all[k] >= all[d]]_vars

\* the run saved MaxSeen records; the record of item 1, which the state
\* now in the backup had, was dropped for newer ones
C21_Witness ==
    /\ step = "saved"
    /\ Cardinality(DOMAIN stateFile.seen) = MaxSeen
    /\ 1 \notin DOMAIN stateFile.seen
    /\ \E n \in DOMAIN backups : /\ backups[n].kind = "state"
                                /\ 1 \in DOMAIN backups[n].seen

\* ------------------------------------------------- further claims on Spec
\* C22: a record of the persisted seen-map is never rewritten: whenever the
\* primary file goes from one state to another, every id that is in both
\* has the timestamp it had.
C22_SeenRecordImmutable ==
    [][(stateFile.kind = "state" /\ stateFile'.kind = "state")
          => \A i \in DOMAIN stateFile.seen \cap DOMAIN stateFile'.seen :
                stateFile'.seen[i] = stateFile.seen[i]]_vars

\* C23: cleanupOldBackups leaves at most MaxBackups backups, removes only
\* backups and only the oldest ones; and when a saveState call that met no
\* error returns, the backup directory holds at most MaxBackups backups.
C23_BackupRetention ==
    [][\A p \in Procs :
          /\ (pc[p] = "sv_cleanup" /\ pc'[p] = "release")
                => /\ Cardinality(DOMAIN backups') <= MaxBackups
                   /\ DOMAIN backups' \subseteq DOMAIN backups
                   /\ \A k \in DOMAIN backups' : backups'[k] = backups[k]
                   /\ \A d \in DOMAIN backups \ DOMAIN backups' :
                          \A k \in DOMAIN backups' : d < k
          /\ (pc[p] = "release" /\ op[p] = "save" /\ err[p] = "none"
                 /\ pc'[p] = "done")
                => Cardinality(DOMAIN backups') <= MaxBackups]_vars

\* ------------------------------------------- further claims on PipeSpec
\* the maximum age an operator means to allow, in ticks
MaxAge == 1

\* C25: no entry that processFeeds passes on is older than the maximum
\* window, whether or not a previous run left a lastRun.
C25_MaxAgeGuard ==
    \A k \in 1..Len(allEntries) : now - PubTs(allEntries[k]) <= MaxAge

\* ============================================================ MigrateSpec
\* loadStateFile applied to every small parsed JSON object: the legacy
\* migration of a flat feedName -> lastUrl map.

\* the state manager's disk and both runs at rest
RestIdle ==
    /\ now = StartTime
    /\ stateFile = NoFile
    /\ backups = <<>>
    /\ lockFile = NoFile
    /\ tmpFile = NoFile
    /\ pc = [p \in Procs |-> "idle"]
    /\ op = [p \in Procs |-> "load"]
    /\ attempt = [p \in Procs |-> 0]
    /\ lockData = [p \in Procs |-> 0]
    /\ state = [p \in Procs |-> createEmptyState]
    /\ entries = [p \in Procs |-> {}]
    /\ delivered = [p \in Procs |-> {}]
    /\ err = [p \in Procs |-> "none"]
    /\ seenAtLoad = [p \in Procs |-> {}]
    /\ reclaimed = [p \in Procs |-> FALSE]

\* the keys a parsed state file may hold: two feed names and "seen"
FileKeys == {"A", "B", "seen"}

\* the string values a key may hold: the empty string and two urls
FileStrings == {"", "u1", "u2"}

\* the values a key may hold: a string, a non-zero number or an object
FileValues == FileStrings \cup {"num", "obj"}

\* the objects JSON.parse may return: Object.entries(state) in insertion
\* order, keys distinct
ParsedObjects ==
    {o \in UNION {[1..n -> FileKeys \X FileValues] : n \in 0..Cardinality(FileKeys)} :
        \A j, k \in DOMAIN o : j # k => o[j][1] # o[k][1]}

\* Object.keys(state)
keys(o) == {o[k][1] : k \in DOMAIN o}

\* state[key], "undefined" for a key the object lacks
valueAt(o, key) ==
    IF key \in keys(o) THEN o[CHOOSE k \in DOMAIN o : o[k][1] = key][2]
    ELSE "undefined"

\* typeof v === 'string'
isString(v) == v \in FileStrings

\* the values JavaScript coerces to false
falsy(v) == v \in {"", "undefined"}

\* keys.length > 0 && keys.every(k => typeof state[k] === 'string'), under
\* the guard !state.seen
looksLegacy(o) ==
    /\ falsy(valueAt(o, "seen"))
    /\ keys(o) # {}
    /\ \A key \in keys(o) : isString(valueAt(o, key))

\* the key of migrated.seen a legacy pair is stored under
migrateKey_ByFeedName(feedName, url) == feedName

migrateKey(feedName, url) == url

\* the loop over Object.entries(state), from entry k on: every pair with a
\* non-empty string value writes migrated.seen[url], a later pair with the
\* same url replacing an earlier one
RECURSIVE migratedSeen(_, _, _, _)
migratedSeen(o, k, seen, nowIso) ==
    IF k > Len(o) THEN seen
    ELSE LET feedName == o[k][1]
             url == o[k][2]
             rec == [timestamp |-> nowIso, source |-> feedName, title |-> ""]
             key == migrateKey(feedName, url)
         IN IF isString(url) /\ ~falsy(url)
            THEN migratedSeen(o, k + 1,
                     [i \in DOMAIN seen \cup {key} |->
                         IF i = key THEN rec ELSE seen[i]], nowIso)
            ELSE migratedSeen(o, k + 1, seen, nowIso)

\* loadStateFile once the file is read and parsed: a legacy map is migrated,
\* any other object is returned as it is
loadParsedStateFile(o, nowIso) ==
    IF looksLegacy(o)
    THEN [kind |-> "migrated", seen |-> migratedSeen(o, 1, <<>>, nowIso),
          lastRun |-> "null", feedStats |-> <<>>, filterStats |-> <<>>,
          version |-> "2.0"]
    ELSE [kind |-> "parsed", object |-> o]

MigrateInit ==
    /\ RestIdle
    /\ PipeIdle
    /\ ValIdle
    /\ IdIdle
    /\ FiltIdle
    /\ mgIn \in ParsedObjects
    /\ mgOut = None
    /\ mgStep = "none"

MigrateLoad ==
    /\ mgStep = "none"
    /\ mgOut' = loadParsedStateFile(mgIn, now)
    /\ mgStep' = "loaded"
    /\ UNCHANGED <<mgIn, now, stateFile, backups, procVars, pipeVars, valVars,
                   idVars, filtVars>>

MigrateNext == MigrateLoad

MigrateSpec == MigrateInit /\ [][MigrateNext]_vars

\* the non-empty values of a parsed object
nonEmptyValues(o) == {valueAt(o, key) : key \in keys(o)} \ {""}

\* C24: a non-empty flat map without a "seen" key whose values are all
\* strings is loaded as a state with one seen record per non-empty value,
\* keyed by that value, its source a legacy key that held the value, its
\* timestamp the time of the load, and with the version set.
C24_LegacyMigration ==
    (/\ mgStep = "loaded"
     /\ "seen" \notin keys(mgIn)
     /\ keys(mgIn) # {}
     /\ \A key \in keys(mgIn) : isString(valueAt(mgIn, key)))
        => /\ mgOut.kind = "migrated"
           /\ DOMAIN mgOut.seen = nonEmptyValues(mgIn)
           /\ \A url \in DOMAIN mgOut.seen :
                 /\ mgOut.seen[url].timestamp = now
                 /\ mgOut.seen[url].source \in keys(mgIn)
                 /\ valueAt(mgIn, mgOut.seen[url].source) = url
           /\ mgOut.version = "2.0"

C24_Witness ==
    /\ mgStep = "loaded"
    /\ mgIn = <<<<"A", "u1">>, <<"B", "">>>>
    /\ mgOut.kind = "migrated"
    /\ DOMAIN mgOut.seen = {"u1"}
    /\ mgOut.seen["u1"].source = "A"

\* =========================================================== EntryIdSpec
\* generateEntryId applied to the entries DefaultParser.normalizeItems makes
\* of two feed items, in two runs.

\* a string: its text, whether blanks surround it, and, for a link, whether
\* it is an absolute URL, ends in a slash, carries a query, carries a
\* fragment, and has upper-case letters
Str(text, pad, abs, slash, query, frag, upper) ==
    [text |-> text, pad |-> pad, abs |-> abs, slash |-> slash,
     query |-> query, frag |-> frag, upper |-> upper]

\* a field the feed left out
undefined == [kind |-> "undefined"]

\* a title
Title(text) == [title |-> text]

\* a date in ISO format, by its tick
IsoDate(t) == [iso |-> t]

\* the date a feed gives its item
FeedDate == IsoDate(1)

\* the guid strings of a feed
Guids == {Str("g", pad, FALSE, FALSE, FALSE, FALSE, FALSE) : pad \in BOOLEAN}

\* the link strings of a feed: variants of one page address
Links ==
    {Str("page", FALSE, abs, slash, query, frag, upper) :
        abs \in BOOLEAN, slash \in BOOLEAN, query \in BOOLEAN,
        frag \in BOOLEAN, upper \in BOOLEAN}

\* the items rss-parser returns
RawItems ==
    [title : {undefined, Title("t")}, guid : {undefined} \cup Guids,
     link : {undefined} \cup Links, pubDate : {undefined, FeedDate},
     isoDate : {undefined, FeedDate}]

\* the items that differ from item only in the trailing slash, the query,
\* the fragment or the letter case of the link
linkVariants(item) ==
    IF item.link = undefined THEN {item}
    ELSE {[item EXCEPT !.link = l] : l \in {m \in Links : m.abs = item.link.abs}}

\* a || b
orElse(a, b) == IF a # undefined THEN a ELSE b

\* normalizeItems on one item, parsed at time t; the adapters of
\* normalizeEntryByFeed leave these fields as they are
normalizeItems(item, t) ==
    [title |-> orElse(item.title, Title("No Title")),
     link |-> orElse(item.link, item.guid),
     guid |-> orElse(item.guid, item.link),
     publishedDate |-> orElse(item.pubDate, orElse(item.isoDate, IsoDate(t)))]

\* String.prototype.trim
trim(str) == [str EXCEPT !.pad = FALSE]

\* new URL(link) with hash and search cleared and one trailing slash taken
\* off the path, serialized and lower-cased
normalizedUrl(link) ==
    [link EXCEPT !.slash = FALSE, !.query = FALSE, !.frag = FALSE,
                 !.upper = FALSE]

\* 'h:' + base64 of title|publishedDate
contentHash(title, publishedDate) ==
    [text |-> "h:", title |-> title, publishedDate |-> publishedDate]

generateEntryId(entry) ==
    IF entry.guid # undefined THEN trim(entry.guid)
    ELSE IF entry.link # undefined
         THEN IF entry.link.abs THEN normalizedUrl(entry.link) ELSE entry.link
         ELSE contentHash(entry.title, entry.publishedDate)

EntryIdInit ==
    /\ RestIdle
    /\ PipeIdle
    /\ ValIdle
    /\ MigIdle
    /\ FiltIdle
    /\ eiA \in RawItems
    /\ eiB \in linkVariants(eiA)
    /\ eiIdA = None /\ eiIdB = None /\ eiIdA2 = None
    /\ eiStep = "none"

\* one run fetches both items
EiFirstRun ==
    /\ eiStep = "none"
    /\ eiIdA' = generateEntryId(normalizeItems(eiA, now))
    /\ eiIdB' = generateEntryId(normalizeItems(eiB, now))
    /\ eiStep' = "first"
    /\ UNCHANGED <<eiA, eiB, eiIdA2, now, stateFile, backups, procVars,
                   pipeVars, valVars, migVars, filtVars>>

\* a later run fetches the first item again
EiSecondRun ==
    /\ eiStep = "first"
    /\ now < MaxTime
    /\ now' = now + 1
    /\ eiIdA2' = generateEntryId(normalizeItems(eiA, now'))
    /\ eiStep' = "second"
    /\ UNCHANGED <<eiA, eiB, eiIdA, eiIdB, stateFile, backups, procVars,
                   pipeVars, valVars, migVars, filtVars>>

EntryIdNext == EiFirstRun \/ EiSecondRun

EntryIdSpec == EntryIdInit /\ [][EntryIdNext]_vars

\* C26: a feed item gets the same id in every run, and two items that differ
\* only in the trailing slash, the query, the fragment or the letter case of
\* the link get the same id.
C26_EntryIdStable ==
    eiStep = "second" => (eiIdA2 = eiIdA /\ eiIdB = eiIdA)

\* ============================================================ FilterSpec
\* ThreatFilter.filterEntry applied to one entry under one configuration,
\* and filterAndClassifyEntries' use of the result.

\* the words an entry's title and description may hold; none of them
\* contains another, or any other keyword of the filter, as a substring
Words ==
    {"ransomware", "exploit", "critical", "moderate", "minor", "webinar",
     "vendorx"}

\* a publishedDate that Date cannot parse
InvalidDate == [invalid |-> TRUE]

\* the entries: the words of title and description, and the date
FilterEntries ==
    [text : SUBSET Words,
     publishedDate : {IsoDate(StartTime - 2), IsoDate(StartTime), InvalidDate}]

\* the merged filters of the feed and the global filters, and the muted
\* types of the constructor's config; 0, "" and {} stand for a key left out
FilterConfigs ==
    [maxAge : {0, 1},
     requiredKeywords : {{}, {"vendorx"}},
     blockedKeywords : {{}, {"webinar"}},
     priorityKeywords : {{}, {"webinar"}},
     minimumSeverity : {"", "low", "high"},
     mutedTypes : {{}, {"malware"}}]

\* ThreatFilter.relevantKeywords
relevantKeywords ==
    {"security", "vulnerability", "threat", "malware", "exploit", "patch",
     "update", "advisory", "alert", "breach", "attack", "cve-",
     "cybersecurity", "cyber", "risk", "incident", "ransomware", "phishing",
     "apt"}

\* keywords.some(keyword => text.includes(keyword))
someIncluded(text, keywords) == text \cap keywords # {}

checkAge(entry, maxAge, t) ==
    IF maxAge = 0 THEN TRUE
    ELSE IF entry.publishedDate = InvalidDate THEN FALSE
    ELSE t - entry.publishedDate.iso <= maxAge

hasBlockedKeywords(entry, blockedKeywords) ==
    IF blockedKeywords = {} THEN FALSE
    ELSE someIncluded(entry.text, blockedKeywords)

hasRequiredKeywords(entry, requiredKeywords) ==
    IF requiredKeywords = {} THEN TRUE
    ELSE someIncluded(entry.text, requiredKeywords)

\* the patterns of classifyThreatType, in the order they are tried
patterns ==
    <<[type |-> "vulnerability",
       keywords |-> {"vulnerability", "cve-", "security update", "patch", "exploit"}],
      [type |-> "malware",
       keywords |-> {"malware", "trojan", "ransomware", "virus", "backdoor"}],
      [type |-> "apt",
       keywords |-> {"apt", "advanced persistent", "nation-state", "targeted attack"}],
      [type |-> "data_breach",
       keywords |-> {"data breach", "data leak", "breach", "stolen data"}],
      [type |-> "phishing",
       keywords |-> {"phishing", "spear phishing", "email attack", "social engineering"}],
      [type |-> "ddos", keywords |-> {"ddos", "denial of service", "botnet"}],
      [type |-> "insider_threat",
       keywords |-> {"insider threat", "rogue employee", "internal threat"}],
      [type |-> "supply_chain",
       keywords |-> {"supply chain", "third party", "vendor compromise"}]>>

classifyThreatType(text) ==
    LET hits == {k \in DOMAIN patterns : someIncluded(text, patterns[k].keywords)}
    IN IF hits = {} THEN "general"
       ELSE patterns[CHOOSE k \in hits : \A j \in hits : k <= j].type

\* the keyword lists of classifySeverity
criticalKeywords ==
    {"critical", "emergency", "zero-day", "rce", "remote code execution"}

highKeywords == {"high", "severe", "exploit", "active attack", "widespread"}

mediumKeywords == {"medium", "moderate", "vulnerability", "patch available"}

lowKeywords == {"low", "minor", "informational"}

classifySeverity_LowestFirst(text) ==
    IF someIncluded(text, lowKeywords) THEN "low"
    ELSE IF someIncluded(text, mediumKeywords) THEN "medium"
    ELSE IF someIncluded(text, highKeywords) THEN "high"
    ELSE IF someIncluded(text, criticalKeywords) THEN "critical"
    ELSE "info"

classifySeverity(text) ==
    IF someIncluded(text, criticalKeywords) THEN "critical"
    ELSE IF someIncluded(text, highKeywords) THEN "high"
    ELSE IF someIncluded(text, mediumKeywords) THEN "medium"
    ELSE IF someIncluded(text, lowKeywords) THEN "low"
    ELSE "info"

\* the keyword lists of the formatter's detectSeverity
detectCriticalKeywords ==
    {"critical", "zero-day", "rce", "remote code execution",
     "exploit in the wild", "actively exploited", "emergency", "ransomware",
     "lockbit", "cryptodestroy"}

detectHighKeywords ==
    {"high severity", "security update", "patch tuesday", "vulnerability",
     "cve-", "security advisory", "apt29", "advanced persistent threat",
     "apt", "phishing campaign", "data breach", "exposed", "leaked",
     "compromised"}

detectMediumKeywords ==
    {"moderate", "advisory", "recommendation", "guidance", "medium priority",
     "security alert"}

\* detectSeverity(title, description).level
detectSeverity(text) ==
    IF someIncluded(text, detectCriticalKeywords) THEN "CRITICAL"
    ELSE IF someIncluded(text, detectHighKeywords) THEN "HIGH"
    ELSE IF someIncluded(text, detectMediumKeywords) THEN "MEDIUM"
    ELSE "INFO"

severityLevels == <<"info", "low", "medium", "high", "critical">>

\* severityLevels.indexOf, counted from 1
indexOf(severity) == CHOOSE k \in DOMAIN severityLevels : severityLevels[k] = severity

boostSeverity(currentSeverity) ==
    LET currentIndex == indexOf(currentSeverity)
        boostedIndex == IF currentIndex + 1 <= Len(severityLevels)
                        THEN currentIndex + 1 ELSE Len(severityLevels)
    IN severityLevels[boostedIndex]

meetsSeverityRequirement(severity, minimumSeverity) ==
    IF minimumSeverity = "" THEN TRUE
    ELSE indexOf(severity) >= indexOf(minimumSeverity)

\* classifyEntry: the threat type and the severity after the priority boost
classifyEntry(entry, filters) ==
    LET severity == classifySeverity(entry.text)
    IN [threatType |-> classifyThreatType(entry.text),
        severity |-> IF someIncluded(entry.text, filters.priorityKeywords)
                     THEN boostSeverity(severity) ELSE severity]

\* filterEntry's null
Null == [kind |-> "null"]

\* the test that drops an entry for its blocked keywords
dropBlocked_Always(isRelevant, hasBlocked) == hasBlocked

dropBlocked(isRelevant, hasBlocked) == ~isRelevant /\ hasBlocked

\* what the catch block of filterEntry returns
onError_Drop(entry) == Null

onError(entry) == entry

\* filterEntry at time t; the fault "classify" makes classifyEntry throw
filterEntry(entry, cfg, fault, t) ==
    IF ~checkAge(entry, cfg.maxAge, t) THEN Null
    ELSE LET hasRequired == hasRequiredKeywords(entry, cfg.requiredKeywords)
             hasBaselineRelevant == hasRequiredKeywords(entry, relevantKeywords)
             isRelevant == hasRequired \/ hasBaselineRelevant
             classification == classifyEntry(entry, cfg)
         IN IF ~isRelevant THEN Null
            ELSE IF dropBlocked(isRelevant,
                                hasBlockedKeywords(entry, cfg.blockedKeywords))
                 THEN Null
            ELSE IF fault = "classify" THEN onError(entry)
            ELSE IF classification.threatType \in cfg.mutedTypes THEN Null
            ELSE IF ~meetsSeverityRequirement(classification.severity,
                                              cfg.minimumSeverity) THEN Null
            ELSE [text |-> entry.text, publishedDate |-> entry.publishedDate,
                  classification |-> classification, filtered |-> TRUE,
                  filterTimestamp |-> t]

FilterInit ==
    /\ RestIdle
    /\ PipeIdle
    /\ ValIdle
    /\ MigIdle
    /\ IdIdle
    /\ flEntry \in FilterEntries
    /\ flCfg \in FilterConfigs
    /\ flErr \in {"none", "classify"}
    /\ flOut = None
    /\ flKept = <<>>
    /\ flStep = "none"
    /\ flLevel = "none"

\* filterAndClassifyEntries awaits filterEntry for the entry
FilterEntry ==
    /\ flStep = "none"
    /\ flOut' = filterEntry(flEntry, flCfg, flErr, now)
    /\ flStep' = "filtered"
    /\ UNCHANGED <<flEntry, flCfg, flErr, flKept, flLevel, now, stateFile,
                   backups, procVars, pipeVars, valVars, migVars, idVars>>

\* if (filteredEntry) filteredEntries.push(filteredEntry)
FilterPush ==
    /\ flStep = "filtered"
    /\ flKept' = IF flOut # Null THEN Append(flKept, flOut) ELSE flKept
    /\ flStep' = "pushed"
    /\ UNCHANGED <<flEntry, flCfg, flErr, flOut, flLevel, now, stateFile,
                   backups, procVars, pipeVars, valVars, migVars, idVars>>

\* postToTeams formats the message of a kept entry: formatMessage calls
\* detectSeverity on its title and description
FilterFormat ==
    /\ flStep = "pushed"
    /\ flLevel' = IF flKept = <<>> THEN "none" ELSE detectSeverity(flKept[1].text)
    /\ flStep' = "formatted"
    /\ UNCHANGED <<flEntry, flCfg, flErr, flOut, flKept, now, stateFile,
                   backups, procVars, pipeVars, valVars, migVars, idVars>>

FilterNext == FilterEntry \/ FilterPush \/ FilterFormat

FilterSpec == FilterInit /\ [][FilterNext]_vars

\* the entry holds a configured required keyword or a baseline keyword
containsRelevantKeyword(entry, cfg) ==
    someIncluded(entry.text, cfg.requiredKeywords \cup relevantKeywords)

\* classifyEntry is reached and throws
classifyThrows ==
    /\ flErr = "classify"
    /\ checkAge(flEntry, flCfg.maxAge, now)
    /\ \/ hasRequiredKeywords(flEntry, flCfg.requiredKeywords)
       \/ hasRequiredKeywords(flEntry, relevantKeywords)

\* C27: for an entry that holds a required or baseline keyword, filterEntry
\* returns what it returns when no blocked keywords are configured.
C27_BlockedNeverDropsRelevant ==
    (flStep # "none" /\ containsRelevantKeyword(flEntry, flCfg))
        => flOut = filterEntry(flEntry, [flCfg EXCEPT !.blockedKeywords = {}],
                               flErr, now)

C27_Witness ==
    /\ flStep = "pushed"
    /\ flErr = "none"
    /\ flEntry.text = {"ransomware", "webinar"}
    /\ flCfg.blockedKeywords = {"webinar"}
    /\ flOut # Null
    /\ flOut.filtered
    /\ flKept = <<flOut>>

\* C28: without an internal error, every entry filterEntry lets through
\* holds a configured required keyword or a baseline keyword.
C28_OnlyRelevantAccepted ==
    (flStep # "none" /\ flErr = "none" /\ flOut # Null)
        => containsRelevantKeyword(flEntry, flCfg)

\* C29: without an internal error, every entry filterEntry lets through is
\* within maxAge, holds a required or baseline keyword, is not of a muted
\* threat type and has a severity, after the boost, at or above the minimum.
C29_AcceptedPassedAllChecks ==
    (flStep # "none" /\ flErr = "none" /\ flOut # Null)
        => /\ flCfg.maxAge # 0 =>
                 /\ flEntry.publishedDate # InvalidDate
                 /\ now - flEntry.publishedDate.iso <= flCfg.maxAge
           /\ containsRelevantKeyword(flEntry, flCfg)
           /\ flOut.classification.threatType \notin flCfg.mutedTypes
           /\ flCfg.minimumSeverity # "" =>
                 \E j, k \in DOMAIN severityLevels :
                     /\ severityLevels[j] = flCfg.minimumSeverity
                     /\ severityLevels[k] = flOut.classification.severity
                     /\ j <= k

highestTier(text, tiers) ==
    LET matching == {k \in DOMAIN tiers : someIncluded(text, tiers[k])}
    IN IF matching = {} THEN 0
       ELSE CHOOSE k \in matching : \A j \in matching : j <= k

C32_NoDoubleDeliveryOnOverlap ==
    [][\A p, q \in Procs :
          (p # q /\ pc[p] = "filtered" /\ pc'[p] = "output" /\ Alive(q))
              => delivered'[p] \cap delivered[q] = {}]_vars

\* ------------------------------------------- claims on what a run records
\* C33: when a run that was not a dry run has saved its state, every entry
\* of this run that is in the saved seen-map was accepted by the sink.
C33_SeenOnlyAfterDelivery ==
    (step = "saved" /\ ~dryRun)
        => \A k \in 1..Len(filtered) :
              filtered[k] \in DOMAIN stateFile.seen => k \in sinkOk

\* run p has ended without saving, having delivered item i, and run q has
\* not started yet
EndedUnsaved(p, q, i) ==
    /\ pc[p] \in {"crashed", "failed"}
    /\ i \in delivered[p]
    /\ pc[q] = "idle"

\* The runs of Spec as the operating system schedules them: a process that
\* can take a step is not left waiting for ever, and the clock does not stop
\* before MaxTime.
FairSpec == Spec /\ WF_vars(Next)

\* C34: an item delivered by a run that crashed or failed before it saved
\* its state is not delivered by a run that starts afterwards.
C34_NoRedeliveryAfterCrash ==
    \A p \in Procs : \A q \in Procs \ {p} : \A i \in Items :
        [](EndedUnsaved(p, q, i) => [](i \notin delivered[q]))

\* ============================================================= FirstSpec
\* The runs of Spec from the first tick on, when only item 1 is published
\* and no state is on disk (no file, or a damaged one without backups):
\* item 2 appears in the feed while a run may be in progress.
FirstTime == 1

FirstInit ==
    /\ now = FirstTime
    /\ stateFile \in {NoFile, Corrupt}
    /\ backups = <<>>
    /\ lockFile = NoFile
    /\ tmpFile = NoFile
    /\ pc = [p \in Procs |-> "idle"]
    /\ op = [p \in Procs |-> "load"]
    /\ attempt = [p \in Procs |-> 0]
    /\ lockData = [p \in Procs |-> 0]
    /\ state = [p \in Procs |-> createEmptyState]
    /\ entries = [p \in Procs |-> {}]
    /\ delivered = [p \in Procs |-> {}]
    /\ err = [p \in Procs |-> "none"]
    /\ seenAtLoad = [p \in Procs |-> {}]
    /\ reclaimed = [p \in Procs |-> FALSE]
    /\ PipeIdle
    /\ ValIdle
    /\ FnIdle

FirstSpec == FirstInit /\ [][Next]_vars

\* FirstSpec under the scheduling of FairSpec
FirstFairSpec == FirstSpec /\ WF_vars(Next)

\* run p has fetched its feed before item i was published, and run q has
\* not started yet
FetchedBefore(p, q, i) ==
    /\ pc[p] = "processed"
    /\ PubTs(i) > now
    /\ pc[q] = "idle"

\* run q has fetched its feed after item i was published (the state it had
\* loaded was saved no earlier than that) and has passed item i on
AcceptedWhenFetched(q, i) ==
    (pc[q] = "processed" /\ state[q].lastRun >= PubTs(i))
        => i \in entries[q]

\* the items published after the first tick
LaterItems == {i \in Items : PubTs(i) > FirstTime}

\* C35: an item published after the only earlier run had fetched the feed
\* is passed on by the next run that fetches it.
C35_PublishedDuringRunAccepted ==
    \A p \in Procs : \A q \in Procs \ {p} : \A i \in LaterItems :
        [](FetchedBefore(p, q, i) => []AcceptedWhenFetched(q, i))

\* ============================================================ SharedSpec
\* One run() as in PipeSpec, over feeds that repeat an item: feed 1 lists
\* item 1 twice, feed 2 lists item 1 as well, every other feed lists an
\* item of its own.
SharedFeedItems(f) ==
    CASE f = 1 -> <<1, 1>>
      [] f = 2 -> <<1>>
      [] OTHER -> <<f>>

\* the filter callback of processFeeds on the entries of one feed:
\* thisRunIds, a new Set for each feed, rejects an id that an earlier entry
\* of the same feed had
newInFeed(items, st, t) ==
    {k \in 1..Len(items) :
        /\ \A j \in 1..(k - 1) : items[j] # items[k]
        /\ isNewEntry(items[k], st, t)}

\* processFeeds' loop body for one feed whose fetch and parse succeed
SharedFeedOk ==
    /\ step = "feeds"
    /\ LET items == SharedFeedItems(feedIdx)
       IN allEntries' = allEntries \o KeepSeq(items, newInFeed(items, runState, now), 1)
    /\ feedResults' = [feedResults EXCEPT ![feedIdx] = "ok"]
    /\ feedIdx' = feedIdx + 1
    /\ step' = AfterFeed
    /\ UNCHANGED <<dryRun, filtered, outIdx, totalPosted, postedThisRun,
                   runState, postAttempt, delayMs, resp, fetches, waited,
                   sinkOk, sendFailed, summary>>
    /\ UNCHANGED <<now, stateFile, backups, procVars, valVars, fnVars>>

SharedNext ==
    \/ PipeStart \/ PipeLoadState
    \/ SharedFeedOk \/ PipeFeedFails
    \/ PipeFilter
    \/ PipeOutputNext \/ PipeSendThrows \/ PostToTeams
    \/ PipeUpdateState \/ PipeRecordRunEnd

SharedSpec == PipeInit /\ [][SharedNext]_vars

\* C36: the entries the sink accepted in one run are entries of different
\* items.
C36_NoDuplicateInRun ==
    \A j, k \in sinkOk : j # k => filtered[j] # filtered[k]

\* ============================================================== LockSpec
\* The runs of Spec, started also on a disk whose lock file cannot be
\* parsed: a run was killed while it created the file.
LockDisks == InitDisks \cup {<<PrevState, <<>>, Corrupt>>}

LockInit ==
    /\ now = StartTime
    /\ \E d \in LockDisks : stateFile = d[1] /\ backups = d[2] /\ lockFile = d[3]
    /\ tmpFile = NoFile
    /\ pc = [p \in Procs |-> "idle"]
    /\ op = [p \in Procs |-> "load"]
    /\ attempt = [p \in Procs |-> 0]
    /\ lockData = [p \in Procs |-> 0]
    /\ state = [p \in Procs |-> createEmptyState]
    /\ entries = [p \in Procs |-> {}]
    /\ delivered = [p \in Procs |-> {}]
    /\ err = [p \in Procs |-> "none"]
    /\ seenAtLoad = [p \in Procs |-> {}]
    /\ reclaimed = [p \in Procs |-> FALSE]
    /\ PipeIdle
    /\ ValIdle
    /\ FnIdle

LockSpec == LockInit /\ [][Next]_vars

\* C37: no acquireLock call gives up while the lock file is one that cannot
\* be parsed: such a file is replaced, not waited for.
C37_UnparseableLockReplaced ==
    [][\A p \in Procs :
          (pc[p] = "acq_check" /\ pc'[p] = "failed") => lockFile # Corrupt]_vars

\* ============================================================ LegacySpec
\* A legacy state file, written by the earlier script for one feed, is
\* migrated by loadStateFile, and the run then fetches the item the file
\* was about.

\* the items the earlier script took: validateFeedItem wants a title, a
\* link or guid, and a date, of which normalizeItems always supplies the
\* title and the date
LegacyItems ==
    {item \in RawItems : item.link # undefined \/ item.guid # undefined}

\* what the earlier script stored under the feed's name: the link of the
\* feed's most recent item, or its guid when it has no link
legacyUrl(item) == orElse(item.link, item.guid)

\* the loop of loadStateFile over a legacy map whose values are all
\* non-empty strings: one record per value, under the key migrateKey gives
legacySeen(o, nowIso) ==
    [key \in {migrateKey(o[k][1], o[k][2]) : k \in DOMAIN o} |->
        LET k == CHOOSE j \in DOMAIN o :
                    /\ migrateKey(o[j][1], o[j][2]) = key
                    /\ \A l \in DOMAIN o :
                          migrateKey(o[l][1], o[l][2]) = key => l <= j
        IN [timestamp |-> nowIso, source |-> o[k][1], title |-> ""]]

LegacyInit ==
    /\ RestIdle
    /\ PipeIdle
    /\ ValIdle
    /\ FiltIdle
    /\ eiA \in LegacyItems
    /\ eiB = None
    /\ eiIdA = None /\ eiIdB = None /\ eiIdA2 = None
    /\ eiStep = "none"
    /\ mgIn = <<<<"A", legacyUrl(eiA)>>>>
    /\ mgOut = None
    /\ mgStep = "none"

\* loadState: the legacy map is migrated
LegacyLoad ==
    /\ mgStep = "none"
    /\ mgOut' = [kind |-> "migrated", seen |-> legacySeen(mgIn, now),
                 lastRun |-> "null", feedStats |-> <<>>, filterStats |-> <<>>,
                 version |-> "2.0"]
    /\ mgStep' = "loaded"
    /\ UNCHANGED <<mgIn, now, stateFile, backups, procVars, pipeVars, valVars,
                   idVars, filtVars>>

\* processFeeds computes the id of the item's entry
LegacyFetch ==
    /\ mgStep = "loaded"
    /\ eiStep = "none"
    /\ eiIdA' = generateEntryId(normalizeItems(eiA, now))
    /\ eiStep' = "first"
    /\ UNCHANGED <<eiA, eiB, eiIdB, eiIdA2, now, stateFile, backups, procVars,
                   pipeVars, valVars, migVars, filtVars>>

LegacyNext == LegacyLoad \/ LegacyFetch

LegacySpec == LegacyInit /\ [][LegacyNext]_vars

\* C38: the id the run computes for the item of the legacy file is a key of
\* the migrated seen-map, so that processFeeds drops the item as seen.
C38_MigratedItemSeen ==
    eiStep = "first" => eiIdA \in DOMAIN mgOut.seen

====
